---- MODULE Spec2Model ----
(***************************************************************************)
(* A model of the Readest plugin runtime glue: plugin system start-up and  *)
(* shut-down (pluginInitService), the plugin store's UI registries, the    *)
(* Tauri process spawner bridge, the annotation data provider and the      *)
(* book capability created by the host API provider.                       *)
(*                                                                         *)
(* Each subsystem has its own specification over the shared variables:     *)
(*   SpecLife  initializePlugins / shutdownPlugins (await by await)        *)
(*   SpecBook  createBookAPI and the book data provider's reads            *)
(*   SpecProc  one handle of createTauriProcessSpawner().spawn             *)
(*   SpecAnn   one ReadestAnnotationDataProvider over the book data store  *)
(*   SpecReg   the id-keyed sequences of the plugin store                  *)
(*   SpecMap   the keyed maps of the plugin store                          *)
(*   SpecUI    all five registries of the plugin store and disposal tokens *)
(***************************************************************************)
EXTENDS Integers, Sequences, FiniteSets, TLC

\* ------------------------------------------------------------------ bounds
\* Manifests found by one discovery.
MaxPlugins == 2
\* initializePlugins calls in one behaviour.
MaxCalls == 2
\* Sections of an open book's document.
MaxChapters == 2
\* Book capabilities created (one per plugin load).
MaxCaps == 1
\* Handlers registered on one process handle.
MaxHandlers == 2
\* Events raised on one process handle.
MaxEvents == 2
\* Terminations issued to one child process.
MaxKills == 1
\* Records in the host's annotation collection of one book.
MaxNotes == 2
\* Annotations in one createAnnotations call.
MaxBatch == 2
\* Configs handed to saveConfig for one book.
MaxSaves == 3
\* Largest value of the clock behind Date.now().
MaxClock == 2
\* Largest chapter index a plugin passes with an annotation.
MaxChapterIndex == 1
\* Entries in the UI registries of the plugin store, all together.
MaxEntries == 3
\* Entries in the UI registries while both the maps and the sequences hold some.
MaxMixed == 2

\* ------------------------------------------------------------------ state
VARIABLES
    \* pluginInitService module-level state
    _loader,            \* 0 = null, otherwise the id of the PluginLoader instance
    _hostProvider,      \* 0 = null, otherwise the id of the provider instance
    _bookKeyAccessor,   \* 0 = null, otherwise the id of the injected accessor
    \* pluginStore system state
    initialized,
    pluginCount,
    \* the initializePlugins call in flight
    ipc,                \* "idle" | "provider" | "dir" | "discover" | "load" | "done"
    discovered,         \* what discoverPlugins returned: a sequence of fates
    idx,                \* loop position: the plugin whose loadPlugin is awaited
    loadedCount,
    initOutcome,        \* "none" | "returned" | "raised"
    initFailed,         \* the outer catch block ran in this call
    calls,              \* initializePlugins calls made so far
    \* the shutdownPlugins call in flight
    spc,                \* "idle" | "unloading" | "done"
    shutOutcome,        \* "none" | "returned" | "raised"
    unloadTarget,       \* what the loader held when unloadAll was called on it
    unloadRejected,     \* unloadAll rejected in this shutdownPlugins call
    \* what the SDK loaders hold: <<loader id, plugin>> for every activated plugin
    active,
    overlap             \* a shutdownPlugins call ran while this initializePlugins was suspended

lifeVars == << _loader, _hostProvider, _bookKeyAccessor, initialized, pluginCount,
               ipc, discovered, idx, loadedCount, initOutcome, initFailed, calls,
               spc, shutOutcome, unloadTarget, unloadRejected, active, overlap >>

VARIABLES
    \* host stores read by the book capability
    activeKey,          \* what bookKeyAccessor() returns: "none" (null) or a book key
    bookStore,          \* useBookDataStore: book key -> book data
    \* book capabilities handed to plugins
    bookAPIs,           \* sequence of ReadestBookDataProvider._bookKey
    lastRead            \* the last capability call: who, what, and what it returned

bookVars == << activeKey, bookStore, bookAPIs, lastRead >>

VARIABLES
    \* one spawn(command, args) call of the Tauri process spawner
    ppc,                \* spawnPromise: "none" | "spawning" | "resolved" | "failed"
    killed,
    childPid,           \* 0 = undefined
    childKill,          \* childKill is defined
    regs,               \* handler registrations in push order: kind, behaviour, when
    received,           \* per registration: the calls it got, << event index, argument >>
    \* the Tauri side
    proc,               \* the child process: "none" | "running" | "exited"
    events,             \* events raised on the handle, in order
    resolvedAt,         \* number of events raised before the spawn settled
    killsIssued,        \* child.kill() calls
    killResult,         \* what the last kill() returned: "none" | "true" | "false"
    killDeferred        \* the continuation of the spawn applied a pending kill

procVars == << ppc, killed, childPid, childKill, regs, received, proc, events,
               resolvedAt, killsIssued, killResult, killDeferred >>

VARIABLES
    \* the book data store entry of the annotation provider's book key
    hasConfig,          \* getConfig(bookKey) gives a config
    booknotes,          \* config.booknotes
    saves,              \* number of saveConfig calls
    now,                \* Date.now()
    nextId,             \* stands for the generated part of the next note id
    lastCall,           \* the provider's last call: operation, argument, what the
                        \* view did ("none" | "noview" | "ok" | "throws"), result
    deleteCalls,        \* ids deleteAnnotation was called with while in the collection
    layers              \* this._layers: Map layer id -> layer

annVars == << hasConfig, booknotes, saves, now, nextId, lastCall, deleteCalls,
              layers >>

VARIABLES
    \* the UI registries of the plugin store
    pluginPanels,            \* Map: panelId -> entry
    pluginToolbarButtons,
    pluginContextMenuItems,
    pluginStatusBarItems,
    pluginSettingsPages,     \* Map: pluginId -> entry
    lastOp                   \* the store's last action, whether an entry of its
                             \* key was there, and the key of a register action
                             \* or of an update in place

regVars == << pluginPanels, pluginToolbarButtons, pluginContextMenuItems,
              pluginStatusBarItems, pluginSettingsPages, lastOp >>

VARIABLES
    \* the process spawner of each host API provider
    tauriInternals,     \* '__TAURI_INTERNALS__' in window
    processSpawner,     \* this._processSpawner of each provider constructed
    spawnLog            \* spawn calls made through the providers: the provider
                        \* and whether the call returned a handle or threw

spawnerVars == << tauriInternals, processSpawner, spawnLog >>

VARIABLES
    \* the live view of the book provider's book key
    view,               \* viewStates[key]?.view: whether there is one, and the
                        \* renderer's contents (section index and document)
    lastTransform       \* the transform call made in the last step, if any

viewVars == << view, lastTransform >>

VARIABLES
    \* what the host API provider hands to the plugins
    annFor,             \* the plugin the annotation provider was created for
    sidecarAPIs,        \* the capabilities createSidecarAPI returned
    pageOf,             \* plugin -> the settings page its UI capability holds registered
    \* the ReadestUIHost
    uiHandlers,         \* which of the three handlers the host UI layer has set
    lastShow,           \* the last showProgress / showModal / showConfirm call
    \* a disposal token a plugin keeps
    held                \* the registration the token was returned for

hostVars == << annFor, sidecarAPIs, pageOf, uiHandlers, lastShow, held >>

vars == << lifeVars, bookVars, procVars, annVars, regVars, spawnerVars, viewVars, hostVars >>

\* What the operations of one subsystem leave alone.
notLife == << bookVars, procVars, annVars, regVars, spawnerVars, viewVars, hostVars >>
notBook == << lifeVars, procVars, annVars, regVars, spawnerVars, viewVars, hostVars >>
notProc == << lifeVars, bookVars, annVars, regVars, spawnerVars, viewVars, hostVars >>
notAnn == << lifeVars, bookVars, procVars, regVars, spawnerVars, viewVars, hostVars >>
notReg == << lifeVars, bookVars, procVars, annVars, spawnerVars, viewVars, hostVars >>
notSpawner == << lifeVars, bookVars, procVars, annVars, regVars, viewVars,
                hostVars >>
notView == << lifeVars, bookVars, procVars, annVars, regVars, spawnerVars,
             hostVars >>
notHost == << lifeVars, bookVars, procVars, viewVars >>

\* ------------------------------------------------------------ lifecycle
\* What becomes of one discovered manifest: the manifest fails validation
\* (plugin.manifest is null), loadPlugin rejects while importing the module,
\* loadPlugin rejects while activating, or loadPlugin resolves.
Fates == {"invalid", "loadFail", "activateFail", "ok"}

RECURSIVE SeqsUpTo(_, _)
SeqsUpTo(S, n) ==
    IF n = 0 THEN {<< >>}
    ELSE LET shorter == SeqsUpTo(S, n - 1)
         IN  shorter \cup {Append(s, x) : s \in {t \in shorter : Len(t) = n - 1}, x \in S}

\* The plugins of a discovery whose manifest is valid.
ValidPlugins(disc) == {i \in 1..Len(disc) : disc[i] # "invalid"}
\* The plugins of a discovery that load and activate when asked to.
GoodPlugins(disc) == {i \in 1..Len(disc) : disc[i] = "ok"}

\* The plugins activated in the loader _loader refers to.
loaderPlugins == {pr[2] : pr \in {q \in active : q[1] = _loader}}
\* The plugins activated in the loader that initializePlugins call c created.
ActivatedBy(c) == {pr[2] : pr \in {q \in active : q[1] = c}}
\* The plugins still activated in a loader the module no longer refers to.
orphans == {q \in active : q[1] # _loader}

\* The first plugin at or after i with a manifest (the loop skips the others
\* synchronously), or Len(disc) + 1 when the loop runs off the end.
RECURSIVE NextValid(_, _)
NextValid(disc, i) ==
    IF i > Len(disc) THEN Len(disc) + 1
    ELSE IF disc[i] # "invalid" THEN i
    ELSE NextValid(disc, i + 1)

LifeInit ==
    /\ _loader = 0
    /\ _hostProvider = 0
    /\ _bookKeyAccessor = 0
    /\ initialized = FALSE
    /\ pluginCount = 0
    /\ ipc = "idle"
    /\ discovered = << >>
    /\ idx = 0
    /\ loadedCount = 0
    /\ initOutcome = "none"
    /\ initFailed = FALSE
    /\ calls = 0
    /\ spc = "idle"
    /\ shutOutcome = "none"
    /\ unloadTarget = {}
    /\ unloadRejected = FALSE
    /\ active = {}
    /\ overlap = FALSE

\* A mutant of OuterCatch: the error path forgets setInitialized(true).
OuterCatchLeavesUninitialized ==
    /\ pluginCount' = 0
    /\ initialized' = initialized
    /\ initFailed' = TRUE
    /\ initOutcome' = "returned"
    /\ ipc' = "done"
    /\ idx' = 0

\* A mutant of OuterCatch: the error is thrown again after the store is set.
OuterCatchRethrows ==
    /\ pluginCount' = 0
    /\ initialized' = TRUE
    /\ initFailed' = TRUE
    /\ initOutcome' = "raised"
    /\ ipc' = "done"
    /\ idx' = 0

\* initializePlugins, outer catch block: count 0, initialized true, return.
OuterCatch ==
    /\ pluginCount' = 0
    /\ initialized' = TRUE
    /\ initFailed' = TRUE
    /\ initOutcome' = "returned"
    /\ ipc' = "done"
    /\ idx' = 0

\* initializePlugins, step 5 and the end of the try block.
FinishInit(cnt) ==
    /\ pluginCount' = cnt
    /\ initialized' = TRUE
    /\ initFailed' = FALSE
    /\ initOutcome' = "returned"
    /\ ipc' = "done"
    /\ idx' = 0

\* A mutant of LoadLoop: no test of plugin.manifest, loadPlugin is called for
\* every discovered plugin.
LoadLoopUnvalidated(disc, i, cnt) ==
    IF _loader # 0 /\ i <= Len(disc)
    THEN /\ ipc' = "load"
         /\ idx' = i
         /\ loadedCount' = cnt
         /\ UNCHANGED << pluginCount, initialized, initFailed, initOutcome >>
    ELSE /\ loadedCount' = cnt
         /\ FinishInit(cnt)

\* The for loop over disc from plugin i on, with cnt plugins loaded so far, up
\* to its next await. With _loader null (cleared by a shutdown meanwhile) every
\* _loader.loadPlugin throws a TypeError into the inner catch, so the loop runs
\* to its end without loading.
LoadLoop(disc, i, cnt) ==
    LET j == NextValid(disc, i)
    IN  IF _loader # 0 /\ j <= Len(disc)
        THEN /\ ipc' = "load"
             /\ idx' = j
             /\ loadedCount' = cnt
             /\ UNCHANGED << pluginCount, initialized, initFailed, initOutcome >>
        ELSE /\ loadedCount' = cnt
             /\ FinishInit(cnt)

\* A mutant of InnerCatch: no try/catch around loadPlugin, so a rejected load
\* lands in the outer catch and ends the loop.
InnerCatchMissing ==
    /\ OuterCatch
    /\ UNCHANGED loadedCount

\* A mutant of InnerCatch: loadedCount++ sits after the try/catch, so a failed
\* load is counted too.
InnerCatchCounts ==
    LoadLoop(discovered, idx + 1, loadedCount + 1)

\* initializePlugins, the inner catch: log the failure, go on with the next plugin.
InnerCatch ==
    LoadLoop(discovered, idx + 1, loadedCount)

\* initializePlugins is called: the accessor is stored, the store's setters are
\* taken, and the call suspends on createHostAPIProvider.
InitCall ==
    /\ UNCHANGED notLife
    /\ ipc \in {"idle", "done"}
    /\ calls < MaxCalls
    /\ calls' = calls + 1
    /\ _bookKeyAccessor' = calls + 1
    /\ ipc' = "provider"
    /\ initOutcome' = "none"
    /\ initFailed' = FALSE
    /\ discovered' = << >>
    /\ idx' = 0
    /\ loadedCount' = 0
    /\ overlap' = (spc = "unloading")
    /\ UNCHANGED << _loader, _hostProvider, initialized, pluginCount, spc, shutOutcome,
                    unloadTarget, unloadRejected, active >>

\* createHostAPIProvider resolves: the provider and a new PluginLoader are
\* stored, and the call suspends on getPluginsBaseDirectory.
ProviderCreated ==
    /\ UNCHANGED notLife
    /\ ipc = "provider"
    /\ _hostProvider' = calls
    /\ _loader' = calls
    /\ ipc' = "dir"
    /\ UNCHANGED << _bookKeyAccessor, initialized, pluginCount, discovered, idx,
                    loadedCount, initOutcome, initFailed, calls, spc, shutOutcome,
                    unloadTarget, unloadRejected, active, overlap >>

\* createHostAPIProvider rejects (the data base path cannot be resolved).
ProviderFailed ==
    /\ UNCHANGED notLife
    /\ ipc = "provider"
    /\ OuterCatch
    /\ UNCHANGED << _loader, _hostProvider, _bookKeyAccessor, discovered, loadedCount,
                    calls, spc, shutOutcome, unloadTarget, unloadRejected, active,
                    overlap >>

\* getPluginsBaseDirectory resolves to '' (web, or the path cannot be resolved).
NoPluginsDir ==
    /\ UNCHANGED notLife
    /\ ipc = "dir"
    /\ FinishInit(0)
    /\ UNCHANGED << _loader, _hostProvider, _bookKeyAccessor, discovered, loadedCount,
                    calls, spc, shutOutcome, unloadTarget, unloadRejected, active,
                    overlap >>

\* getPluginsBaseDirectory resolves to a directory: _loader.discoverPlugins is
\* called (a TypeError into the outer catch when _loader has been cleared).
PluginsDirFound ==
    /\ UNCHANGED notLife
    /\ ipc = "dir"
    /\ IF _loader # 0
       THEN /\ ipc' = "discover"
            /\ UNCHANGED << pluginCount, initialized, initFailed, initOutcome, idx >>
       ELSE OuterCatch
    /\ UNCHANGED << _loader, _hostProvider, _bookKeyAccessor, discovered, loadedCount,
                    calls, spc, shutOutcome, unloadTarget, unloadRejected, active,
                    overlap >>

\* discoverPlugins resolves with the manifests found; the loop starts.
Discovered ==
    /\ UNCHANGED notLife
    /\ ipc = "discover"
    /\ \E disc \in SeqsUpTo(Fates, MaxPlugins) :
          /\ discovered' = disc
          /\ LoadLoop(disc, 1, 0)
    /\ UNCHANGED << _loader, _hostProvider, _bookKeyAccessor, calls, spc, shutOutcome,
                    unloadTarget, unloadRejected, active, overlap >>

\* discoverPlugins rejects: the discovery step itself cannot run.
DiscoverFailed ==
    /\ UNCHANGED notLife
    /\ ipc = "discover"
    /\ OuterCatch
    /\ UNCHANGED << _loader, _hostProvider, _bookKeyAccessor, discovered, loadedCount,
                    calls, spc, shutOutcome, unloadTarget, unloadRejected, active,
                    overlap >>

\* loadPlugin(manifestPath, {activate: true}) resolves: the plugin is activated
\* in the loader it was called on (the one this call created), loadedCount++,
\* and the loop goes on.
LoadSucceeded ==
    /\ UNCHANGED notLife
    /\ ipc = "load"
    /\ discovered[idx] = "ok"
    /\ active' = active \cup {<< calls, idx >>}
    /\ LoadLoop(discovered, idx + 1, loadedCount + 1)
    /\ UNCHANGED << _loader, _hostProvider, _bookKeyAccessor, discovered, calls, spc,
                    shutOutcome, unloadTarget, unloadRejected, overlap >>

\* loadPlugin rejects (module load or activation failed).
LoadFailed ==
    /\ UNCHANGED notLife
    /\ ipc = "load"
    /\ discovered[idx] \in {"loadFail", "activateFail"}
    /\ InnerCatch
    /\ UNCHANGED << _loader, _hostProvider, _bookKeyAccessor, discovered, calls, spc,
                    shutOutcome, unloadTarget, unloadRejected, active, overlap >>

\* shutdownPlugins, after the try/catch around unloadAll: clear the module
\* state, reset the store, return.
ClearAll ==
    /\ _loader' = 0
    /\ _hostProvider' = 0
    /\ _bookKeyAccessor' = 0
    /\ pluginCount' = 0
    /\ initialized' = FALSE
    /\ shutOutcome' = "returned"
    /\ spc' = "done"

\* A mutant of UnloadCatch: no try/catch around unloadAll, so its rejection
\* leaves shutdownPlugins before anything is cleared.
UnloadCatchMissing ==
    /\ shutOutcome' = "raised"
    /\ spc' = "done"
    /\ UNCHANGED << _loader, _hostProvider, _bookKeyAccessor, pluginCount, initialized >>

\* shutdownPlugins, the catch around unloadAll: log, then go on clearing.
UnloadCatch ==
    ClearAll

\* shutdownPlugins is called: with a loader it suspends on unloadAll, without
\* one it clears the state at once.
ShutdownCall ==
    /\ UNCHANGED notLife
    /\ spc \in {"idle", "done"}
    /\ calls > 0
    /\ IF _loader # 0
       THEN /\ spc' = "unloading"
            /\ shutOutcome' = "none"
            /\ unloadTarget' = {q \in active : q[1] = _loader}
            /\ UNCHANGED << _loader, _hostProvider, _bookKeyAccessor, pluginCount,
                            initialized >>
       ELSE /\ ClearAll
            /\ unloadTarget' = {}
    /\ unloadRejected' = FALSE
    /\ overlap' = (overlap \/ ipc \notin {"idle", "done"})
    /\ UNCHANGED << ipc, discovered, idx, loadedCount, initOutcome, initFailed, calls,
                    active >>

\* unloadAll resolves: every plugin the loader held at the call is unloaded.
Unloaded ==
    /\ UNCHANGED notLife
    /\ spc = "unloading"
    /\ active' = active \ unloadTarget
    /\ ClearAll
    /\ unloadTarget' = {}
    /\ overlap' = (overlap \/ ipc \notin {"idle", "done"})
    /\ UNCHANGED << ipc, discovered, idx, loadedCount, initOutcome, initFailed, calls,
                    unloadRejected >>

\* unloadAll rejects, having unloaded all, some or none of the plugins.
UnloadFailed ==
    /\ UNCHANGED notLife
    /\ spc = "unloading"
    /\ \E kept \in SUBSET unloadTarget : active' = active \ (unloadTarget \ kept)
    /\ unloadRejected' = TRUE
    /\ UnloadCatch
    /\ unloadTarget' = {}
    /\ overlap' = (overlap \/ ipc \notin {"idle", "done"})
    /\ UNCHANGED << ipc, discovered, idx, loadedCount, initOutcome, initFailed, calls >>

LifeNext ==
    \/ InitCall
    \/ ProviderCreated
    \/ ProviderFailed
    \/ NoPluginsDir
    \/ PluginsDirFound
    \/ Discovered
    \/ DiscoverFailed
    \/ LoadSucceeded
    \/ LoadFailed
    \/ ShutdownCall
    \/ Unloaded
    \/ UnloadFailed

\* Every await of initializePlugins settles: the event loop runs each
\* continuation once its promise resolves or rejects.
LifeFairness ==
    WF_vars(ProviderCreated \/ ProviderFailed \/ NoPluginsDir \/ PluginsDirFound
            \/ Discovered \/ DiscoverFailed \/ LoadSucceeded \/ LoadFailed)


\* ------------------------------------------------------- book capability
Keys == {"k1", "k2"}

\* The book hash behind a book key (a key is "<hash>-<view id>").
HashOf(k) == IF k = "k1" THEN 1 ELSE IF k = "k2" THEN 2 ELSE 0

\* No entry in useBookDataStore for the key.
NoData == [present |-> FALSE, hash |-> 0, hasDoc |-> FALSE, sections |-> 0,
           toc |-> 0]

\* What the store can hold for key k: nothing, a book whose document is not
\* loaded, or a book with a document of some number of sections, with a
\* table of contents (of one entry) or without.
DataFor(k) ==
    {NoData}
    \cup {[present |-> TRUE, hash |-> HashOf(k), hasDoc |-> FALSE, sections |-> 0,
           toc |-> 0]}
    \cup {[present |-> TRUE, hash |-> HashOf(k), hasDoc |-> TRUE, sections |-> n,
           toc |-> t] : n \in 0..MaxChapters, t \in {0, 1}}

\* accessors.getBookData(key): the store's entry; '' has none.
getBookData(key) == IF key \in Keys THEN bookStore[key] ELSE NoData

BookOps == {"getCurrentBook", "getChapterCount", "getMetadata"}

\* getCurrentBook: null (id 0) without book data, else the mapped book (its id
\* is the book hash).
getCurrentBook(key) ==
    LET data == getBookData(key)
    IN  IF ~data.present THEN 0 ELSE data.hash

\* getChapterCount: data?.bookDoc?.sections?.length ?? 0.
getChapterCount(key) ==
    LET data == getBookData(key)
    IN  IF data.present /\ data.hasDoc THEN data.sections ELSE 0

\* getMetadata: the document's metadata, else the book's title and author, else
\* 'Unknown'. The result names where the title came from and of which book.
getMetadata(key) ==
    LET data == getBookData(key)
    IN  IF data.present /\ data.hasDoc THEN << "doc", data.hash >>
        ELSE IF data.present THEN << "book", data.hash >>
        ELSE << "Unknown", 0 >>

\* One read of the provider, on the key given.
BookRead(op, key) ==
    IF op = "getCurrentBook" THEN << getCurrentBook(key) >>
    ELSE IF op = "getChapterCount" THEN << getChapterCount(key) >>
    ELSE getMetadata(key)

ContextOps == {"getCurrentChapter", "getAllChapters", "getSelectedText"}

\* accessors.getProgress(key) gives null.
NoProgress == -1

\* The progress the reader store can hold for a book key: none, or the index
\* of the section shown.
Progresses == {NoProgress} \cup 0..MaxChapters

\* A mutant of getCurrentChapter: the section is loaded from the progress
\* alone.
getCurrentChapterUnchecked(key, progress) ==
    IF progress = NoProgress THEN << "null", 0, 0 >>
    ELSE << "chapter", progress, getBookData(key).hash >>

\* getCurrentChapter: null without progress, without a document, or with the
\* progress outside the sections; else the chapter of the section shown.
getCurrentChapter(key, progress) ==
    LET data == getBookData(key)
    IN  IF progress = NoProgress THEN << "null", 0, 0 >>
        ELSE IF ~(data.present /\ data.hasDoc) THEN << "null", 0, 0 >>
        ELSE IF progress < 0 \/ progress >= data.sections THEN << "null", 0, 0 >>
        ELSE << "chapter", progress, data.hash >>

\* getAllChapters: [] without a document, else the summaries of the table of
\* contents when it has entries, else one summary for each section. The result
\* names where the summaries came from, how many they are, and the book.
getAllChapters(key) ==
    LET data == getBookData(key)
    IN  IF ~(data.present /\ data.hasDoc) THEN << "none", 0, 0 >>
        ELSE IF data.toc > 0 THEN << "toc", data.toc, data.hash >>
        ELSE << "sections", data.sections, data.hash >>

\* getSelectedText: the accessor's getCurrentSelection() gives null.
getSelectedText == << "null", 0, 0 >>

ContextRead(op, key, progress) ==
    IF op = "getCurrentChapter" THEN getCurrentChapter(key, progress)
    ELSE IF op = "getAllChapters" THEN getAllChapters(key)
    ELSE getSelectedText

ChapterOps == {"getChapter", "getChapterHTML", "getChapterText"}

\* The indices plugins ask chapters for.
ChapterIndices == -1..MaxChapters

\* A mutant of InRange: the upper bound is checked with >.
InRangeOffByOne(index, length) == ~(index < 0 \/ index > length)

\* getChapter: !(index < 0 || index >= sections.length)
InRange(index, length) == ~(index < 0 \/ index >= length)

\* getChapter: an error without a document or with the index out of range,
\* else the chapter _loadChapter builds from sections[index]: its index and the
\* book it is of.
getChapter(key, index) ==
    LET data == getBookData(key)
    IN  IF ~(data.present /\ data.hasDoc) THEN << "NotAvailable", index, 0 >>
        ELSE IF ~InRange(index, data.sections)
             THEN << "OutOfRange", index, data.sections >>
        ELSE << "chapter", index, data.hash >>

\* getChapterHTML: (await this.getChapter(chapterIndex)).html
getChapterHTML(key, chapterIndex) ==
    LET chapter == getChapter(key, chapterIndex)
    IN  IF chapter[1] = "chapter" THEN << "html", chapter[2], chapter[3] >> ELSE chapter

\* getChapterText: (await this.getChapter(chapterIndex)).text
getChapterText(key, chapterIndex) ==
    LET chapter == getChapter(key, chapterIndex)
    IN  IF chapter[1] = "chapter" THEN << "text", chapter[2], chapter[3] >> ELSE chapter

ChapterRead(op, key, index) ==
    IF op = "getChapter" THEN getChapter(key, index)
    ELSE IF op = "getChapterHTML" THEN getChapterHTML(key, index)
    ELSE getChapterText(key, index)

\* this._bookKeyAccessor() ?? ''
CurrentKey == IF activeKey = "none" THEN "" ELSE activeKey

BookInit ==
    /\ activeKey = "none"
    /\ bookStore = [k \in Keys |-> NoData]
    /\ bookAPIs = << >>
    /\ lastRead = [cap |-> 0, op |-> "none", arg |-> 0, result |-> << >>]

\* The host opens, reloads or closes the book of a key.
SetBookData ==
    /\ UNCHANGED notBook
    /\ \E k \in Keys : \E d \in DataFor(k) :
          /\ bookStore[k] # d
          /\ bookStore' = [bookStore EXCEPT ![k] = d]
    /\ UNCHANGED << activeKey, bookAPIs, lastRead >>

\* The user switches to another book (or to none).
SwitchBook ==
    /\ UNCHANGED notBook
    /\ \E k \in Keys \cup {"none"} :
          /\ k # activeKey
          /\ activeKey' = k
    /\ UNCHANGED << bookStore, bookAPIs, lastRead >>

\* createBookAPI: the provider is built with the book key of this moment.
createBookAPI ==
    /\ UNCHANGED notBook
    /\ Len(bookAPIs) < MaxCaps
    /\ bookAPIs' = Append(bookAPIs, CurrentKey)
    /\ UNCHANGED << activeKey, bookStore, lastRead >>

\* A plugin calls one read of its book capability: the provider reads the
\* store under this._bookKey.
CallBook ==
    /\ UNCHANGED notBook
    /\ \E c \in 1..Len(bookAPIs) : \E op \in BookOps :
          lastRead' = [cap |-> c, op |-> op, arg |-> 0,
                       result |-> BookRead(op, bookAPIs[c])]
    /\ UNCHANGED << activeKey, bookStore, bookAPIs >>

\* A plugin asks its book capability for a chapter, its HTML or its text.
CallChapter ==
    /\ UNCHANGED notBook
    /\ \E c \in 1..Len(bookAPIs) : \E op \in ChapterOps : \E index \in ChapterIndices :
          lastRead' = [cap |-> c, op |-> op, arg |-> index,
                       result |-> ChapterRead(op, bookAPIs[c], index)]
    /\ UNCHANGED << activeKey, bookStore, bookAPIs >>

\* A plugin asks its book capability for the chapter shown, the chapter
\* summaries or the selection; the reader store has some progress for the
\* provider's key, or none.
CallContext ==
    /\ UNCHANGED notBook
    /\ \E c \in 1..Len(bookAPIs) : \E op \in ContextOps : \E progress \in Progresses :
          /\ op # "getCurrentChapter" => progress = NoProgress
          /\ lastRead' = [cap |-> c, op |-> op, arg |-> progress,
                          result |-> ContextRead(op, bookAPIs[c], progress)]
    /\ UNCHANGED << activeKey, bookStore, bookAPIs >>

BookNext ==
    \/ SetBookData
    \/ SwitchBook
    \/ createBookAPI
    \/ CallBook
    \/ CallChapter
    \/ CallContext

\* ------------------------------------------------------ chapter transforms
\* Paragraph-like nodes of the rendered documents, all together, at most.
MaxParagraphs == 3

\* The sections the renderer loads, and the chapter indices plugins pass to
\* the transforms.
Sections == {0, 1}
TransformIndices == Sections \cup {-1, 2}

\* The text of a paragraph: as rendered from the book, and as a plugin
\* writes it.
Texts == {"t0", "t1"}

\* A document is the sequence of its paragraph-like nodes, the nodes that
\* querySelectorAll('p, div.paragraph, [data-paragraph]') gives, in document
\* order; a node has its own text and its depth among these nodes: the nodes
\* inside node i are those that follow it with a greater depth.
Paragraph(text, depth) == [text |-> text, depth |-> depth]

\* The HTML a plugin writes into a paragraph: text, and inside it some number
\* of paragraph-like nodes.
ParagraphHtmls == [text : Texts, inner : {0, 1}]

\* The place of the last node inside node i of doc (i itself when none is).
RECURSIVE LastInside(_, _, _)
LastInside(doc, i, j) ==
    IF j < Len(doc) /\ doc[j + 1].depth > doc[i].depth
    THEN LastInside(doc, i, j + 1)
    ELSE j

\* A mutant of SetInnerHTML: the nodes that follow the node go with those
\* inside it.
SetInnerHTMLToEnd(doc, i, html) ==
    SubSeq(doc, 1, i - 1)
        \o << Paragraph(html.text, doc[i].depth) >>
        \o [n \in 1..html.inner |-> Paragraph("t1", doc[i].depth + 1)]

\* paragraph.innerHTML = html on node i of doc: what was inside the node goes,
\* what the HTML holds comes.
SetInnerHTML(doc, i, html) ==
    SubSeq(doc, 1, i - 1)
        \o << Paragraph(html.text, doc[i].depth) >>
        \o [n \in 1..html.inner |-> Paragraph("t1", doc[i].depth + 1)]
        \o SubSeq(doc, LastInside(doc, i, i) + 1, Len(doc))

\* The number of nodes of the first n contents.
RECURSIVE NodeCount(_, _)
NodeCount(contents, n) ==
    IF n = 0 THEN 0 ELSE Len(contents[n].doc) + NodeCount(contents, n - 1)

\* The documents of view v have room in the model.
Fits(v) == NodeCount(v.contents, Len(v.contents)) <= MaxParagraphs

\* getView(key) gives null.
NoView == [present |-> FALSE, contents |-> << >>]

NoTransform == [op |-> "none", chapterIndex |-> 0, paragraphIndex |-> 0,
                result |-> "none"]

\* The section indices the renderer has documents of.
Rendered(v) == {v.contents[i].index : i \in 1..Len(v.contents)}

\* A mutant of findContent: the first content stands in when none matches.
FindOrFirst(contents, chapterIndex) ==
    IF \E i \in 1..Len(contents) : contents[i].index = chapterIndex
    THEN CHOOSE i \in 1..Len(contents) :
             /\ contents[i].index = chapterIndex
             /\ \A j \in 1..(i - 1) : contents[j].index # chapterIndex
    ELSE IF Len(contents) > 0 THEN 1 ELSE 0

\* contents.find((c) => c.index === chapterIndex): the place of the first
\* content of the index, 0 when there is none.
findContent(contents, chapterIndex) ==
    IF \E i \in 1..Len(contents) : contents[i].index = chapterIndex
    THEN CHOOSE i \in 1..Len(contents) :
             /\ contents[i].index = chapterIndex
             /\ \A j \in 1..(i - 1) : contents[j].index # chapterIndex
    ELSE 0

\* transformChapterHTML on view v: the error thrown, or the view with the body
\* of the section's document replaced. A body is the sequence of its
\* paragraphs.
transformChapterHTML(v, chapterIndex, html) ==
    IF ~v.present THEN [result |-> "NoActiveView", view |-> v]
    ELSE LET target == findContent(v.contents, chapterIndex)
         IN  IF target = 0 THEN [result |-> "NotRendered", view |-> v]
             ELSE [result |-> "ok",
                   view |-> [v EXCEPT !.contents[target].doc = html]]

\* transformParagraph on view v: the error thrown, or the view with the inner
\* HTML of the paragraph replaced.
transformParagraph(v, chapterIndex, paragraphIndex, html) ==
    IF ~v.present THEN [result |-> "NoActiveView", view |-> v]
    ELSE LET target == findContent(v.contents, chapterIndex)
         IN  IF target = 0 THEN [result |-> "NotRendered", view |-> v]
             ELSE LET paragraphs == v.contents[target].doc
                  IN  IF paragraphIndex < 0 \/ paragraphIndex >= Len(paragraphs)
                      THEN [result |-> "OutOfRange", view |-> v]
                      ELSE [result |-> "ok",
                            view |-> [v EXCEPT
                                !.contents[target].doc =
                                    SetInnerHTML(paragraphs, paragraphIndex + 1, html)]]

ViewInit ==
    /\ view = NoView
    /\ lastTransform = NoTransform

\* The host opens the book's view.
OpenView ==
    /\ UNCHANGED notView
    /\ ~view.present
    /\ view' = [present |-> TRUE, contents |-> << >>]
    /\ lastTransform' = NoTransform

\* The host closes it.
CloseView ==
    /\ UNCHANGED notView
    /\ view.present
    /\ view' = NoView
    /\ lastTransform' = NoTransform

\* The renderer loads a section: its document joins the contents, which are
\* in section order.
LoadSection ==
    /\ UNCHANGED notView
    /\ view.present
    /\ \E index \in Sections : \E m \in 0..MaxParagraphs :
          /\ index \notin Rendered(view)
          /\ NodeCount(view.contents, Len(view.contents)) + m <= MaxParagraphs
          /\ LET before == SelectSeq(view.contents, LAMBDA c : c.index < index)
                 after == SelectSeq(view.contents, LAMBDA c : c.index > index)
                 loaded == [index |-> index,
                            doc |-> [n \in 1..m |-> Paragraph("t0", 0)]]
             IN  view' = [view EXCEPT !.contents = before \o << loaded >> \o after]
    /\ lastTransform' = NoTransform

\* The renderer unloads a section.
UnloadSection ==
    /\ UNCHANGED notView
    /\ \E index \in Rendered(view) :
          view' = [view EXCEPT
                      !.contents = SelectSeq(view.contents, LAMBDA c : c.index # index)]
    /\ lastTransform' = NoTransform

\* A plugin calls transformChapterHTML of its book capability.
CallTransformChapterHTML ==
    /\ UNCHANGED notView
    /\ \E chapterIndex \in TransformIndices : \E m \in 0..MaxParagraphs :
          LET html == [n \in 1..m |-> Paragraph("t1", 0)]
              call == transformChapterHTML(view, chapterIndex, html)
          IN  /\ Fits(call.view)
              /\ view' = call.view
              /\ lastTransform' = [op |-> "transformChapterHTML",
                                    chapterIndex |-> chapterIndex,
                                    paragraphIndex |-> 0,
                                    result |-> call.result]

\* A plugin calls transformParagraph of its book capability.
CallTransformParagraph ==
    /\ UNCHANGED notView
    /\ \E chapterIndex \in TransformIndices :
       \E paragraphIndex \in -1..MaxParagraphs : \E html \in ParagraphHtmls :
          LET call == transformParagraph(view, chapterIndex, paragraphIndex, html)
          IN  /\ Fits(call.view)
              /\ view' = call.view
              /\ lastTransform' = [op |-> "transformParagraph",
                                    chapterIndex |-> chapterIndex,
                                    paragraphIndex |-> paragraphIndex,
                                    result |-> call.result]

ViewNext ==
    \/ OpenView
    \/ CloseView
    \/ LoadSection
    \/ UnloadSection
    \/ CallTransformChapterHTML
    \/ CallTransformParagraph

\* ---------------------------------------------------------- process bridge
Kinds == {"exit", "error", "stdout", "stderr"}

\* The pid Tauri gives the child.
ThePid == 7

Range(f) == {f[i] : i \in DOMAIN f}

\* The registrations of one kind, in the order they were pushed.
RECURSIVE HandlersFrom(_, _)
HandlersFrom(kind, i) ==
    IF i > Len(regs) THEN << >>
    ELSE IF regs[i].kind = kind THEN << i >> \o HandlersFrom(kind, i + 1)
    ELSE HandlersFrom(kind, i + 1)

exitHandlers == HandlersFrom("exit", 1)
errorHandlers == HandlersFrom("error", 1)
stdoutHandlers == HandlersFrom("stdout", 1)
stderrHandlers == HandlersFrom("stderr", 1)

HandlersOf(kind) ==
    IF kind = "exit" THEN exitHandlers
    ELSE IF kind = "error" THEN errorHandlers
    ELSE IF kind = "stdout" THEN stdoutHandlers
    ELSE stderrHandlers

\* toBufferLike(line): an object whose toString() gives the line back.
toBufferLike(line) == << "Buffer", line >>

\* What a handler of a kind is called with for an event value: the exit code,
\* new Error(errorMsg), or the line wrapped by toBufferLike.
HandlerArg(kind, val) ==
    IF kind = "exit" THEN << "code", val >>
    ELSE IF kind = "error" THEN << "Error", val >>
    ELSE toBufferLike(val)

\* for (const handler of hs) handler(...): the handlers that get called, in
\* order; a handler that throws ends the loop.
RECURSIVE Invoked(_)
Invoked(hs) ==
    IF hs = << >> THEN << >>
    ELSE IF regs[Head(hs)].throws THEN << Head(hs) >>
    ELSE << Head(hs) >> \o Invoked(Tail(hs))

\* A mutant of Dispatch: the loop calls every handler twice.
DispatchTwice(kind, val, i) ==
    LET called == Range(Invoked(HandlersOf(kind)))
    IN  [h \in DOMAIN received |->
            IF h \in called
            THEN received[h] \o << << i, HandlerArg(kind, val) >>,
                                   << i, HandlerArg(kind, val) >> >>
            ELSE received[h]]

\* One event callback of the bridge (cmd.on('close'), cmd.on('error'),
\* cmd.stdout.on('data'), cmd.stderr.on('data'), or the catch block): event
\* number i of the kind, with value val, is handed to the handlers of the kind.
Dispatch(kind, val, i) ==
    LET called == Range(Invoked(HandlersOf(kind)))
    IN  [h \in DOMAIN received |->
            IF h \in called
            THEN Append(received[h], << i, HandlerArg(kind, val) >>)
            ELSE received[h]]

\* A mutant of pid: the getter gives the pid before the spawn has resolved.
PidEager == ThePid

\* get pid() { return childPid; } -- 0 stands for undefined.
pid == childPid

ProcInit ==
    /\ ppc = "none"
    /\ killed = FALSE
    /\ childPid = 0
    /\ childKill = FALSE
    /\ regs = << >>
    /\ received = << >>
    /\ proc = "none"
    /\ events = << >>
    /\ resolvedAt = 0
    /\ killsIssued = 0
    /\ killResult = "none"
    /\ killDeferred = FALSE

\* spawn(command, args): the async spawn is kicked off and the handle returned.
Spawn ==
    /\ UNCHANGED notProc
    /\ ppc = "none"
    /\ ppc' = "spawning"
    /\ UNCHANGED << killed, childPid, childKill, regs, received, proc, events,
                    resolvedAt, killsIssued, killResult, killDeferred >>

\* process.on('exit' | 'error', handler), process.stdout.on, process.stderr.on:
\* the handler is pushed on the list of its kind. A handler either returns or
\* throws when called.
\* A mutant of Register: the handle keeps the events and hands the past ones of
\* the kind to a handler that comes late.
RegisterReplaying ==
    /\ UNCHANGED notProc
    /\ ppc # "none"
    /\ Len(regs) < MaxHandlers
    /\ \E kind \in Kinds, t \in BOOLEAN :
          /\ regs' = Append(regs, [kind |-> kind, throws |-> t,
                                   before |-> (ppc = "spawning")])
          /\ received' = Append(received,
                [n \in 1..Cardinality({i \in 1..Len(events) : events[i].kind = kind}) |->
                    LET i == CHOOSE i \in 1..Len(events) :
                                 /\ events[i].kind = kind
                                 /\ Cardinality({j \in 1..i : events[j].kind = kind}) = n
                    IN  << i, HandlerArg(kind, events[i].val) >>])
    /\ UNCHANGED << ppc, killed, childPid, childKill, proc, events, resolvedAt,
                    killsIssued, killResult, killDeferred >>

Register ==
    /\ UNCHANGED notProc
    /\ ppc # "none"
    /\ Len(regs) < MaxHandlers
    /\ \E kind \in Kinds, t \in BOOLEAN :
          regs' = Append(regs, [kind |-> kind, throws |-> t,
                                before |-> (ppc = "spawning")])
    /\ received' = Append(received, << >>)
    /\ UNCHANGED << ppc, killed, childPid, childKill, proc, events, resolvedAt,
                    killsIssued, killResult, killDeferred >>

\* The Tauri backend starts the child; its events may reach the webview before
\* the spawn() promise of the frontend resolves.
ProcessStarts ==
    /\ UNCHANGED notProc
    /\ ppc = "spawning"
    /\ proc = "none"
    /\ proc' = "running"
    /\ UNCHANGED << ppc, killed, childPid, childKill, regs, received, events,
                    resolvedAt, killsIssued, killResult, killDeferred >>

\* A mutant of DeferredKill: the continuation does not look at the killed flag.
DeferredKillMissing == killsIssued

\* After await cmd.spawn(): if (killed && childKill) childKill().
DeferredKill == IF killed THEN killsIssued + 1 ELSE killsIssued

\* await cmd.spawn() resolves: childPid and childKill are set, and a kill
\* requested meanwhile is applied.
SpawnResolves ==
    /\ UNCHANGED notProc
    /\ ppc = "spawning"
    /\ proc # "none"
    /\ ppc' = "resolved"
    /\ childPid' = ThePid
    /\ childKill' = TRUE
    /\ killsIssued' = DeferredKill
    /\ resolvedAt' = Len(events)
    /\ killDeferred' = killed
    /\ UNCHANGED << killed, regs, received, proc, events, killResult >>

\* The import, Command.create or cmd.spawn() throws: the catch block calls the
\* error handlers with the error.
SpawnFails ==
    /\ UNCHANGED notProc
    /\ ppc = "spawning"
    /\ proc = "none"
    /\ ppc' = "failed"
    /\ events' = Append(events, [kind |-> "error", val |-> "startup"])
    /\ received' = Dispatch("error", "startup", Len(events) + 1)
    /\ resolvedAt' = Len(events)
    /\ UNCHANGED << killed, childPid, childKill, regs, proc, killsIssued, killResult,
                    killDeferred >>

\* A mutant of KillReturn: kill reports failure when there is no child to kill.
KillReturnByChild == IF childKill THEN "true" ELSE "false"

\* kill: return true
KillReturn == "true"

\* kill(signal): the flag is set, the child is killed when there is one, and
\* true is returned either way.
Kill ==
    /\ UNCHANGED notProc
    /\ ppc # "none"
    /\ killed' = TRUE
    /\ IF childKill
       THEN /\ killsIssued < MaxKills
            /\ killsIssued' = killsIssued + 1
       ELSE UNCHANGED killsIssued
    /\ killResult' = KillReturn
    /\ UNCHANGED << ppc, childPid, childKill, regs, received, proc, events, resolvedAt,
                    killDeferred >>

\* The running child writes a line or reports an error: the command emits the
\* event and the bridge's callback hands it to the handlers.
Emit ==
    /\ UNCHANGED notProc
    /\ proc = "running"
    /\ Len(events) < MaxEvents
    /\ \E kind \in {"stdout", "stderr", "error"} :
          /\ events' = Append(events, [kind |-> kind, val |-> "x"])
          /\ received' = Dispatch(kind, "x", Len(events) + 1)
    /\ UNCHANGED << ppc, killed, childPid, childKill, regs, proc, resolvedAt,
                    killsIssued, killResult, killDeferred >>

\* The child terminates (by itself or killed): 'close' with its exit code.
Exit ==
    /\ UNCHANGED notProc
    /\ proc = "running"
    /\ Len(events) < MaxEvents
    /\ proc' = "exited"
    /\ \E code \in {"0", "1"} :
          /\ events' = Append(events, [kind |-> "exit", val |-> code])
          /\ received' = Dispatch("exit", code, Len(events) + 1)
    /\ UNCHANGED << ppc, killed, childPid, childKill, regs, resolvedAt, killsIssued,
                    killResult, killDeferred >>

ProcNext ==
    \/ Spawn
    \/ Register
    \/ ProcessStarts
    \/ SpawnResolves
    \/ SpawnFails
    \/ Kill
    \/ Emit
    \/ Exit

\* ------------------------------------------------------ annotation provider
SDKTypes == {"footnote", "highlight", "comment", "sidebar"}

mapReadestNoteTypeToSDK(readestType) ==
    IF readestType = "bookmark" THEN "sidebar"
    ELSE IF readestType = "annotation" THEN "highlight"
    ELSE IF readestType = "excerpt" THEN "comment"
    ELSE "highlight"

mapSDKTypeToReadestNoteType(sdkType) ==
    IF sdkType = "sidebar" THEN "bookmark"
    ELSE IF sdkType \in {"highlight", "footnote"} THEN "annotation"
    ELSE IF sdkType = "comment" THEN "excerpt"
    ELSE "annotation"

\* A CFI is modelled by the number after "/6/" in it; NoStep is a CFI that is
\* empty or has no such part.
NoStep == -1

Max(a, b) == IF a >= b THEN a ELSE b

extractSectionIndexFromCFI(cfi) ==
    IF cfi = NoStep THEN 0 ELSE Max(0, (cfi \div 2) - 1)

\* A mutant of SynthesizedCFI: the spine step of the chapter's number itself.
SynthesizedCFIUnshifted(chapterIndex) == chapterIndex * 2

\* The CFI mapSDKAnnotationToBookNote makes up when none is given.
SynthesizedCFI(chapterIndex) == (chapterIndex + 1) * 2

mapBookNoteToSDKAnnotation(note, pluginId) ==
    [id |-> note.id,
     pluginId |-> pluginId,
     chapterIndex |-> extractSectionIndexFromCFI(note.cfi),
     type |-> mapReadestNoteTypeToSDK(note.type),
     updatedAt |-> note.updatedAt]

mapSDKAnnotationToBookNote(annotation, id, time) ==
    [id |-> id,
     type |-> mapSDKTypeToReadestNoteType(annotation.type),
     cfi |-> SynthesizedCFI(annotation.chapterIndex),
     updatedAt |-> time,
     deletedAt |-> 0]

\* createAnnotationAPI passes 'readest' as the plugin id.
ThePluginId == "readest"

\* No chapter filter.
NoFilter == -1

\* The annotations plugins pass to create: any chapter index up to the bound,
\* and two types the host keeps as one note type.
NewAnnotations == [chapterIndex : 0..MaxChapterIndex, type : {"footnote", "highlight"}]

\* A mutant of ActiveNotes: deleted records are not filtered out.
ActiveNotesAll(notes) == notes

\* config.booknotes.filter((note) => !note.deletedAt)
ActiveNotes(notes) == SelectSeq(notes, LAMBDA note : note.deletedAt = 0)

getAnnotations(chapterIndex) ==
    IF ~hasConfig THEN << >>
    ELSE LET activeNotes == ActiveNotes(booknotes)
             annotations == [n \in 1..Len(activeNotes) |->
                                mapBookNoteToSDKAnnotation(activeNotes[n], ThePluginId)]
         IN  IF chapterIndex # NoFilter
             THEN SelectSeq(annotations, LAMBDA a : a.chapterIndex = chapterIndex)
             ELSE annotations

\* booknotes.findIndex((n) => n.id === annotationId); 0 stands for -1.
RECURSIVE findIndex(_, _, _)
findIndex(notes, id, i) ==
    IF i > Len(notes) THEN 0
    ELSE IF notes[i].id = id THEN i
    ELSE findIndex(notes, id, i + 1)

AnnInit ==
    /\ hasConfig = FALSE
    /\ booknotes = << >>
    /\ saves = 0
    /\ now = 1
    /\ nextId = 1
    /\ lastCall = [op |-> "none", arg |-> NoFilter, render |-> "none", result |-> << >>]
    /\ deleteCalls = {}
    /\ layers = << >>

\* The host opens the book of the provider's key: the store gets its config.
OpenBook ==
    /\ UNCHANGED notAnn
    /\ ~hasConfig
    /\ hasConfig' = TRUE
    /\ UNCHANGED << booknotes, saves, now, nextId, lastCall, deleteCalls, layers >>

\* Time passes.
Tick ==
    /\ UNCHANGED notAnn
    /\ now < MaxClock
    /\ now' = now + 1
    /\ UNCHANGED << hasConfig, booknotes, saves, nextId, lastCall, deleteCalls,
                    layers >>

\* updateBooknotes of the store: the notes replace the collection when the
\* book's data is there, and nothing is returned when it is not.
StoreNotes(notes) == IF hasConfig THEN notes ELSE booknotes

\* saveConfig is called with the updated config when there is one.
Persist == IF hasConfig THEN saves + 1 ELSE saves

\* The outcomes of the best-effort view.addAnnotation.
Renders == {"noview", "ok", "throws"}

\* A mutant of existingNotes: the copy was taken before the last record was
\* added, as it would be had the call been suspended between read and write.
existingNotesStale ==
    IF hasConfig /\ booknotes # << >> THEN SubSeq(booknotes, 1, Len(booknotes) - 1)
    ELSE << >>

\* const existingNotes = config?.booknotes ?? []: read in the synchronous run
\* that also writes (the methods have no await).
existingNotes == IF hasConfig THEN booknotes ELSE << >>

createAnnotations ==
    /\ UNCHANGED notAnn
    /\ \E k \in 1..MaxBatch : \E annotations \in [1..k -> NewAnnotations] :
          /\ Len(booknotes) + k <= MaxNotes
          /\ nextId + k - 1 <= MaxNotes
          /\ LET newNotes == [n \in 1..Len(annotations) |->
                                 mapSDKAnnotationToBookNote(annotations[n],
                                                            nextId + n - 1, now)]
                 updatedNotes == existingNotes \o newNotes
             IN  /\ booknotes' = StoreNotes(updatedNotes)
                 /\ saves' = Persist
                 /\ \E r \in Renders :
                       lastCall' = [op |-> "createMany", arg |-> Len(annotations),
                                    render |-> r,
                                    result |-> [n \in 1..Len(newNotes) |->
                                        mapBookNoteToSDKAnnotation(newNotes[n],
                                                                   ThePluginId)]]
          /\ nextId' = nextId + Len(annotations)
    /\ UNCHANGED << hasConfig, now, deleteCalls, layers >>

createAnnotation ==
    /\ UNCHANGED notAnn
    /\ Len(booknotes) < MaxNotes
    /\ nextId <= MaxNotes
    /\ \E annotation \in NewAnnotations :
          LET newNote == mapSDKAnnotationToBookNote(annotation, nextId, now)
              updatedNotes == Append(existingNotes, newNote)
          IN  /\ booknotes' = StoreNotes(updatedNotes)
              /\ saves' = Persist
              /\ \E r \in Renders :
                    lastCall' = [op |-> "create", arg |-> annotation.chapterIndex,
                                 render |-> r,
                                 result |-> << mapBookNoteToSDKAnnotation(newNote,
                                                                         ThePluginId) >>]
    /\ nextId' = nextId + 1
    /\ UNCHANGED << hasConfig, now, deleteCalls, layers >>

\* The record deleteAnnotation writes over the one found: Date.now() is read
\* twice, for deletedAt and then for updatedAt.
SoftDeleted(note, t1, t2) == [note EXCEPT !.deletedAt = t1, !.updatedAt = t2]

\* A mutant of SoftDeleteAt: the record found is taken out of the array.
SpliceAt(notes, noteIndex, t1, t2) ==
    SubSeq(notes, 1, noteIndex - 1) \o SubSeq(notes, noteIndex + 1, Len(notes))

\* updatedNotes of deleteAnnotation: a copy of the array with the record found
\* written over.
SoftDeleteAt(notes, noteIndex, t1, t2) ==
    [notes EXCEPT ![noteIndex] = SoftDeleted(notes[noteIndex], t1, t2)]

deleteAnnotation ==
    /\ UNCHANGED notAnn
    /\ \E annotationId \in 1..MaxNotes :
          LET noteIndex == findIndex(booknotes, annotationId, 1)
          IN  IF ~hasConfig \/ noteIndex = 0
              THEN /\ lastCall' = [op |-> "delete", arg |-> annotationId,
                                    render |-> "none", result |-> << >>]
                   /\ UNCHANGED << booknotes, saves, now, deleteCalls >>
              ELSE /\ saves < MaxSaves
                   /\ \E t2 \in {now, now + 1} :
                         /\ t2 <= MaxClock
                         /\ now' = t2
                         /\ LET updatedNotes ==
                                    SoftDeleteAt(booknotes, noteIndex, now, t2)
                            IN  /\ booknotes' = StoreNotes(updatedNotes)
                                /\ saves' = Persist
                   /\ \E r \in Renders :
                         lastCall' = [op |-> "delete", arg |-> annotationId,
                                      render |-> r, result |-> << >>]
                   /\ deleteCalls' = deleteCalls \cup {annotationId}
    /\ UNCHANGED << hasConfig, nextId, layers >>

\* A getAnnotations(chapterIndex?) call.
ListAnnotations ==
    /\ UNCHANGED notAnn
    /\ \E chapterIndex \in {NoFilter} \cup 0..MaxChapterIndex :
          lastCall' = [op |-> "list", arg |-> chapterIndex, render |-> "none",
                       result |-> getAnnotations(chapterIndex)]
    /\ UNCHANGED << hasConfig, booknotes, saves, now, nextId, deleteCalls, layers >>

\* new Map(m).set(key, entry), and map.set(key, entry) on the map itself
MapSet(m, key, entry) ==
    [k \in DOMAIN m \cup {key} |-> IF k = key THEN entry ELSE m[k]]

\* A mutant of MapDelete: deleting a key the map does not have empties the map.
MapDeleteOrClear(m, key) ==
    IF key \in DOMAIN m THEN [k \in DOMAIN m \ {key} |-> m[k]] ELSE << >>

\* new Map(m).delete(key), and map.delete(key) on the map itself
MapDelete(m, key) == [k \in DOMAIN m \ {key} |-> m[k]]

\* The ids of layers: those plugins give their layers and those createLayer
\* makes up for a layer without one; "" stands for no id.
LayerIds == {"l1"}

\* The layers createLayer is called with.
NewLayers == [id : LayerIds \cup {""}, visible : BOOLEAN]

\* this._layers.get(layerId) ?? null; the empty sequence stands for null.
getLayer(layerId) ==
    IF layerId \in DOMAIN layers THEN << layers[layerId] >> ELSE << >>

\* createLayer: the id is the layer's, or a new one made of the time and a
\* random part; the layer is stored under it with the provider's plugin id.
createLayer ==
    /\ UNCHANGED notAnn
    /\ \E layer \in NewLayers :
       \E generated \in LayerIds :
          /\ layer.id = "" => generated \notin DOMAIN layers
          /\ LET id == IF layer.id # "" THEN layer.id ELSE generated
                 newLayer == [id |-> id, pluginId |-> ThePluginId,
                              visible |-> layer.visible]
             IN  /\ layers' = MapSet(layers, id, newLayer)
                 /\ lastCall' = [op |-> "createLayer", arg |-> NoFilter,
                                  render |-> "none", result |-> << newLayer >>]
    /\ UNCHANGED << hasConfig, booknotes, saves, now, nextId, deleteCalls >>

GetLayer ==
    /\ UNCHANGED notAnn
    /\ \E layerId \in LayerIds :
          lastCall' = [op |-> "getLayer", arg |-> NoFilter, render |-> "none",
                       result |-> getLayer(layerId)]
    /\ UNCHANGED << hasConfig, booknotes, saves, now, nextId, deleteCalls, layers >>

setLayerVisible ==
    /\ UNCHANGED notAnn
    /\ \E layerId \in LayerIds, visible \in BOOLEAN :
          /\ layers' = IF layerId \in DOMAIN layers
                        THEN MapSet(layers, layerId,
                                    [layers[layerId] EXCEPT !.visible = visible])
                        ELSE layers
          /\ lastCall' = [op |-> "setLayerVisible", arg |-> NoFilter,
                          render |-> "none", result |-> getLayer(layerId)]
    /\ UNCHANGED << hasConfig, booknotes, saves, now, nextId, deleteCalls >>

\* A mutant of deleteLayer: the annotations go with the layer, and the emptied
\* collection is saved.
deleteLayerCascading ==
    /\ UNCHANGED notAnn
    /\ \E layerId \in LayerIds :
          /\ layers' = MapDelete(layers, layerId)
          /\ lastCall' = [op |-> "deleteLayer", arg |-> NoFilter,
                          render |-> "none", result |-> getLayer(layerId)]
    /\ booknotes' = StoreNotes(<< >>)
    /\ saves' = Persist
    /\ UNCHANGED << hasConfig, now, nextId, deleteCalls >>

deleteLayer ==
    /\ UNCHANGED notAnn
    /\ \E layerId \in LayerIds :
          /\ layers' = MapDelete(layers, layerId)
          /\ lastCall' = [op |-> "deleteLayer", arg |-> NoFilter,
                          render |-> "none", result |-> getLayer(layerId)]
    /\ UNCHANGED << hasConfig, booknotes, saves, now, nextId, deleteCalls >>

\* How a setLayerVisible or deleteLayer call ends for the plugin: the methods
\* have no throw and return no rejected promise, on either side of the test
\* of the map, so the call resolves with undefined.
LayerCallOutcome(layerId) ==
    IF layerId \in DOMAIN layers THEN "resolved" ELSE "resolved"

\* The operations that write: annotations and layers.
LayerNext ==
    \/ OpenBook
    \/ Tick
    \/ createAnnotation
    \/ createAnnotations
    \/ deleteAnnotation
    \/ createLayer
    \/ GetLayer
    \/ setLayerVisible
    \/ deleteLayer

AnnNext ==
    \/ OpenBook
    \/ Tick
    \/ createAnnotation
    \/ createAnnotations
    \/ deleteAnnotation
    \/ ListAnnotations

\* ------------------------------------------------------------ UI registries
\* The button, item and panel ids plugins register entries under.
Ids == {"a", "b", "c"}

\* What an entry carries besides its id (label, component).
Labels == {"v1", "v2"}

\* The plugin ids the store is called with: the host's UI API passes '' for
\* every plugin.
PluginIds == {""}

Entries == [id : Ids, label : Labels]

\* The number of entries in the keyed maps, and in the id-keyed sequences.
MapEntryCount ==
    Cardinality(DOMAIN pluginPanels) + Cardinality(DOMAIN pluginSettingsPages)

EntryCount ==
    Len(pluginToolbarButtons) + Len(pluginContextMenuItems) + Len(pluginStatusBarItems)

\* Room for one more entry in a sequence, and in a map.
RoomInSeqs ==
    /\ EntryCount + MapEntryCount < MaxEntries
    /\ MapEntryCount = 0 \/ EntryCount + MapEntryCount < MaxMixed

RoomInMaps ==
    /\ EntryCount + MapEntryCount < MaxEntries
    /\ EntryCount = 0 \/ EntryCount + MapEntryCount < MaxMixed

\* A mutant of RegisterEntry: an entry of the same id is replaced where it is.
RegisterInPlace(seq, entry) ==
    IF \E n \in 1..Len(seq) : seq[n].id = entry.id
    THEN [n \in 1..Len(seq) |-> IF seq[n].id = entry.id THEN entry ELSE seq[n]]
    ELSE Append(seq, entry)

\* [...seq.filter((b) => b.id !== entry.id), entry]
RegisterEntry(seq, entry) ==
    Append(SelectSeq(seq, LAMBDA b : b.id # entry.id), entry)

\* A mutant of UnregisterEntry: seq.splice(seq.findIndex(...), 1), which takes
\* the last entry away when no entry has the id.
UnregisterSplice(seq, id) ==
    IF \E n \in 1..Len(seq) : seq[n].id = id
    THEN LET n == CHOOSE n \in 1..Len(seq) :
                     /\ seq[n].id = id
                     /\ \A m \in 1..(n - 1) : seq[m].id # id
         IN  SubSeq(seq, 1, n - 1) \o SubSeq(seq, n + 1, Len(seq))
    ELSE SubSeq(seq, 1, Len(seq) - 1)

\* seq.filter((b) => b.id !== id)
UnregisterEntry(seq, id) == SelectSeq(seq, LAMBDA b : b.id # id)

HasId(seq, id) == \E n \in 1..Len(seq) : seq[n].id = id

RegInit ==
    /\ pluginPanels = << >>
    /\ pluginToolbarButtons = << >>
    /\ pluginContextMenuItems = << >>
    /\ pluginStatusBarItems = << >>
    /\ pluginSettingsPages = << >>
    /\ lastOp = [op |-> "none", key |-> "", existed |-> FALSE]

registerPanel ==
    /\ UNCHANGED notReg
    /\ \E pluginId \in PluginIds, panelId \in Ids, component \in Labels :
          /\ panelId \in DOMAIN pluginPanels \/ RoomInMaps
          /\ pluginPanels' = MapSet(pluginPanels, panelId,
                                    [pluginId |-> pluginId, panelId |-> panelId,
                                     component |-> component, visible |-> FALSE])
          /\ lastOp' = [op |-> "registerPanel", key |-> panelId,
                        existed |-> panelId \in DOMAIN pluginPanels]
    /\ UNCHANGED << pluginToolbarButtons, pluginContextMenuItems, pluginStatusBarItems,
                    pluginSettingsPages >>

unregisterPanel ==
    /\ UNCHANGED notReg
    /\ \E panelId \in Ids :
          /\ pluginPanels' = MapDelete(pluginPanels, panelId)
          /\ lastOp' = [op |-> "unregisterPanel", key |-> "",
                        existed |-> panelId \in DOMAIN pluginPanels]
    /\ UNCHANGED << pluginToolbarButtons, pluginContextMenuItems, pluginStatusBarItems,
                    pluginSettingsPages >>

setPanelVisible ==
    /\ UNCHANGED notReg
    /\ \E panelId \in Ids, visible \in BOOLEAN :
          /\ pluginPanels' =
                IF panelId \in DOMAIN pluginPanels
                THEN MapSet(pluginPanels, panelId,
                            [pluginPanels[panelId] EXCEPT !.visible = visible])
                ELSE pluginPanels
          /\ lastOp' = [op |-> "setPanelVisible", key |-> panelId,
                        existed |-> panelId \in DOMAIN pluginPanels]
    /\ UNCHANGED << pluginToolbarButtons, pluginContextMenuItems, pluginStatusBarItems,
                    pluginSettingsPages >>

registerToolbarButton ==
    /\ UNCHANGED notReg
    /\ \E button \in Entries :
          /\ HasId(pluginToolbarButtons, button.id) \/ RoomInSeqs
          /\ pluginToolbarButtons' = RegisterEntry(pluginToolbarButtons, button)
          /\ lastOp' = [op |-> "registerToolbarButton", key |-> button.id,
                        existed |-> HasId(pluginToolbarButtons, button.id)]
    /\ UNCHANGED << pluginPanels, pluginContextMenuItems, pluginStatusBarItems,
                    pluginSettingsPages >>

unregisterToolbarButton ==
    /\ UNCHANGED notReg
    /\ \E buttonId \in Ids :
          /\ pluginToolbarButtons' = UnregisterEntry(pluginToolbarButtons, buttonId)
          /\ lastOp' = [op |-> "unregisterToolbarButton", key |-> "",
                        existed |-> HasId(pluginToolbarButtons, buttonId)]
    /\ UNCHANGED << pluginPanels, pluginContextMenuItems, pluginStatusBarItems,
                    pluginSettingsPages >>

registerContextMenuItem ==
    /\ UNCHANGED notReg
    /\ \E item \in Entries :
          /\ HasId(pluginContextMenuItems, item.id) \/ RoomInSeqs
          /\ pluginContextMenuItems' = RegisterEntry(pluginContextMenuItems, item)
          /\ lastOp' = [op |-> "registerContextMenuItem", key |-> item.id,
                        existed |-> HasId(pluginContextMenuItems, item.id)]
    /\ UNCHANGED << pluginPanels, pluginToolbarButtons, pluginStatusBarItems,
                    pluginSettingsPages >>

unregisterContextMenuItem ==
    /\ UNCHANGED notReg
    /\ \E itemId \in Ids :
          /\ pluginContextMenuItems' = UnregisterEntry(pluginContextMenuItems, itemId)
          /\ lastOp' = [op |-> "unregisterContextMenuItem", key |-> "",
                        existed |-> HasId(pluginContextMenuItems, itemId)]
    /\ UNCHANGED << pluginPanels, pluginToolbarButtons, pluginStatusBarItems,
                    pluginSettingsPages >>

registerStatusBarItem ==
    /\ UNCHANGED notReg
    /\ \E item \in Entries :
          /\ HasId(pluginStatusBarItems, item.id) \/ RoomInSeqs
          /\ pluginStatusBarItems' = RegisterEntry(pluginStatusBarItems, item)
          /\ lastOp' = [op |-> "registerStatusBarItem", key |-> item.id,
                        existed |-> HasId(pluginStatusBarItems, item.id)]
    /\ UNCHANGED << pluginPanels, pluginToolbarButtons, pluginContextMenuItems,
                    pluginSettingsPages >>

unregisterStatusBarItem ==
    /\ UNCHANGED notReg
    /\ \E itemId \in Ids :
          /\ pluginStatusBarItems' = UnregisterEntry(pluginStatusBarItems, itemId)
          /\ lastOp' = [op |-> "unregisterStatusBarItem", key |-> "",
                        existed |-> HasId(pluginStatusBarItems, itemId)]
    /\ UNCHANGED << pluginPanels, pluginToolbarButtons, pluginContextMenuItems,
                    pluginSettingsPages >>

\* Partial<StatusBarItem>, with at most one field given: "" stands for a field
\* that is not given.
Updates ==
    [id : Ids, label : {""}] \cup [id : {""}, label : Labels \cup {""}]

\* { ...item, ...updates }
Merge(item, updates) ==
    [id |-> IF updates.id # "" THEN updates.id ELSE item.id,
     label |-> IF updates.label # "" THEN updates.label ELSE item.label]

\* A mutant of UpdateEntry: the updated entries are taken out and put back at
\* the end, as a registration does.
UpdateByRegister(seq, itemId, updates) ==
    SelectSeq(seq, LAMBDA item : item.id # itemId)
        \o [n \in 1..Len(SelectSeq(seq, LAMBDA item : item.id = itemId)) |->
               Merge(SelectSeq(seq, LAMBDA item : item.id = itemId)[n], updates)]

\* seq.map((item) => item.id === itemId ? { ...item, ...updates } : item)
UpdateEntry(seq, itemId, updates) ==
    [n \in 1..Len(seq) |->
        IF seq[n].id = itemId THEN Merge(seq[n], updates) ELSE seq[n]]

updateStatusBarItem ==
    /\ UNCHANGED notReg
    /\ \E itemId \in Ids, updates \in Updates :
          /\ pluginStatusBarItems' = UpdateEntry(pluginStatusBarItems, itemId, updates)
          /\ lastOp' = [op |-> "updateStatusBarItem", key |-> itemId,
                        existed |-> HasId(pluginStatusBarItems, itemId)]
    /\ UNCHANGED << pluginPanels, pluginToolbarButtons, pluginContextMenuItems,
                    pluginSettingsPages >>

registerSettingsPage ==
    /\ UNCHANGED notReg
    /\ \E pluginId \in PluginIds, component \in Labels :
          /\ pluginId \in DOMAIN pluginSettingsPages \/ RoomInMaps
          /\ pluginSettingsPages' = MapSet(pluginSettingsPages, pluginId,
                                           [pluginId |-> pluginId,
                                            component |-> component])
          /\ lastOp' = [op |-> "registerSettingsPage", key |-> pluginId,
                        existed |-> pluginId \in DOMAIN pluginSettingsPages]
    /\ UNCHANGED << pluginPanels, pluginToolbarButtons, pluginContextMenuItems,
                    pluginStatusBarItems >>

unregisterSettingsPage ==
    /\ UNCHANGED notReg
    /\ \E pluginId \in PluginIds :
          /\ pluginSettingsPages' = MapDelete(pluginSettingsPages, pluginId)
          /\ lastOp' = [op |-> "unregisterSettingsPage", key |-> "",
                        existed |-> pluginId \in DOMAIN pluginSettingsPages]
    /\ UNCHANGED << pluginPanels, pluginToolbarButtons, pluginContextMenuItems,
                    pluginStatusBarItems >>

\* The registry a register action or a disposal works on.
RegistryOf ==
    [registerPanel |-> "panels", registerToolbarButton |-> "toolbar",
     registerContextMenuItem |-> "contextMenu", registerStatusBarItem |-> "statusBar",
     registerSettingsPage |-> "settings",
     disposePanel |-> "panels", disposeToolbarButton |-> "toolbar",
     disposeContextMenuItem |-> "contextMenu", disposeStatusBarItem |-> "statusBar",
     disposeSettingsPage |-> "settings"]

DisposeOf ==
    [panels |-> "disposePanel", toolbar |-> "disposeToolbarButton",
     contextMenu |-> "disposeContextMenuItem", statusBar |-> "disposeStatusBarItem",
     settings |-> "disposeSettingsPage"]

RegisterOps == {"registerPanel", "registerToolbarButton", "registerContextMenuItem",
                "registerStatusBarItem", "registerSettingsPage"}

DisposeOps == {DisposeOf[r] : r \in DOMAIN DisposeOf}

\* The token the last register action returned, () => get().unregister...(key),
\* is called, right after the register action or right after its last call.
\* (A call of a token at any other time is one of the unregister actions.)
Dispose ==
    /\ UNCHANGED notReg
    /\ lastOp.op \in RegisterOps \cup DisposeOps
    /\ LET registry == RegistryOf[lastOp.op]
           key == lastOp.key
       IN  /\ pluginPanels' = IF registry = "panels"
                              THEN MapDelete(pluginPanels, key) ELSE pluginPanels
           /\ pluginToolbarButtons' =
                 IF registry = "toolbar"
                 THEN UnregisterEntry(pluginToolbarButtons, key)
                 ELSE pluginToolbarButtons
           /\ pluginContextMenuItems' =
                 IF registry = "contextMenu"
                 THEN UnregisterEntry(pluginContextMenuItems, key)
                 ELSE pluginContextMenuItems
           /\ pluginStatusBarItems' =
                 IF registry = "statusBar"
                 THEN UnregisterEntry(pluginStatusBarItems, key)
                 ELSE pluginStatusBarItems
           /\ pluginSettingsPages' =
                 IF registry = "settings"
                 THEN MapDelete(pluginSettingsPages, key) ELSE pluginSettingsPages
           /\ lastOp' = [op |-> DisposeOf[registry], key |-> key,
                         existed |->
                            IF registry = "panels" THEN key \in DOMAIN pluginPanels
                            ELSE IF registry = "toolbar"
                                 THEN HasId(pluginToolbarButtons, key)
                            ELSE IF registry = "contextMenu"
                                 THEN HasId(pluginContextMenuItems, key)
                            ELSE IF registry = "statusBar"
                                 THEN HasId(pluginStatusBarItems, key)
                            ELSE key \in DOMAIN pluginSettingsPages]

\* The keyed maps: panels and settings pages.
MapNext ==
    \/ registerPanel
    \/ unregisterPanel
    \/ setPanelVisible
    \/ registerSettingsPage
    \/ unregisterSettingsPage

\* The id-keyed sequences: toolbar buttons, context-menu items, status-bar items.
RegNext ==
    \/ registerToolbarButton
    \/ unregisterToolbarButton
    \/ registerContextMenuItem
    \/ unregisterContextMenuItem
    \/ registerStatusBarItem
    \/ unregisterStatusBarItem
    \/ updateStatusBarItem

\* All five registries and the disposal tokens.
UINext ==
    \/ registerPanel
    \/ unregisterPanel
    \/ setPanelVisible
    \/ registerSettingsPage
    \/ unregisterSettingsPage
    \/ registerToolbarButton
    \/ unregisterToolbarButton
    \/ registerContextMenuItem
    \/ unregisterContextMenuItem
    \/ registerStatusBarItem
    \/ unregisterStatusBarItem
    \/ updateStatusBarItem
    \/ Dispose

\* ------------------------------------------------- choice of the spawner
MaxProviders == 2
MaxSpawns == 3

\* The message of the error the web stub throws.
NotSupported == "Sidecar processes are not supported in the web environment"

WebStubReturnsHandle == "handle"

\* createWebProcessSpawnerStub().spawn: throws, synchronously.
WebStubSpawn == NotSupported

\* createTauriProcessSpawner().spawn: starts the async block and returns the
\* handle.
TauriSpawn == "handle"

\* createProcessSpawner(): the Tauri spawner when the window has the Tauri
\* internals, the web stub otherwise.
createProcessSpawner ==
    IF tauriInternals THEN "tauri" ELSE "stub"

\* spawner.spawn(command, args) of a spawner of the given kind.
SpawnWith(spawner) ==
    IF spawner = "tauri" THEN TauriSpawn ELSE WebStubSpawn

\* The window starts as a browser's; EnvironmentChanges makes it a Tauri one.
SpawnerInit ==
    /\ tauriInternals = FALSE
    /\ processSpawner = << >>
    /\ spawnLog = << >>

\* The window gains or loses the Tauri internals.
EnvironmentChanges ==
    /\ tauriInternals' = ~tauriInternals
    /\ UNCHANGED << processSpawner, spawnLog >>
    /\ UNCHANGED notSpawner

\* new ReadestHostAPIProvider(...): this._processSpawner = createProcessSpawner()
ConstructProvider ==
    /\ Len(processSpawner) < MaxProviders
    /\ processSpawner' = Append(processSpawner, createProcessSpawner)
    /\ UNCHANGED << tauriInternals, spawnLog >>
    /\ UNCHANGED notSpawner

\* A spawn call on the spawner createSidecarAPI of a provider handed out.
SpawnCall ==
    /\ Len(spawnLog) < MaxSpawns
    /\ \E p \in 1..Len(processSpawner) :
         spawnLog' = Append(spawnLog,
                            [provider |-> p,
                             outcome |-> SpawnWith(processSpawner[p])])
    /\ UNCHANGED << tauriInternals, processSpawner >>
    /\ UNCHANGED notSpawner

SpawnerNext ==
    \/ EnvironmentChanges
    \/ ConstructProvider
    \/ SpawnCall

\* ------------------------------------------- what the provider hands out
\* The plugins the loader asks the provider for capabilities for.
Plugins == {"p1", "p2"}

\* The sidecar of a manifest: absent, or a command.
NoSidecar == "none"
Manifests == [id : Plugins, sidecar : {NoSidecar, "cmd"}]

\* The components a plugin has for its settings page.
ComponentsOf(plugin) == IF plugin = "p1" THEN {"p1.v1", "p1.v2"} ELSE {"p2.v1", "p2.v2"}

NoHandlers == [modal |-> FALSE, confirm |-> FALSE, progress |-> FALSE]
NoShow == [op |-> "none", own |-> FALSE, any |-> FALSE, task |-> "none",
           delegated |-> 0, hostRuns |-> 0, displayed |-> FALSE, outcome |-> "none",
           value |-> "none"]

\* How a promise settles.
Outcomes == {"resolved", "rejected"}

\* No token kept.
NoToken == [registry |-> "none", key |-> "", mark |-> ""]

HostInit ==
    /\ annFor = "none"
    /\ sidecarAPIs = {}
    /\ pageOf = << >>
    /\ uiHandlers = NoHandlers
    /\ lastShow = NoShow
    /\ held = NoToken

\* createAnnotationAPI(), called by the loader while it builds the capabilities
\* of a plugin: a new provider (with no layers) for the current book key, with
\* the plugin id 'readest'. The call has no argument that names the plugin.
createAnnotationAPI ==
    /\ \E plugin \in Plugins :
          /\ annFor # plugin
          /\ annFor' = plugin
    /\ layers' = << >>
    /\ UNCHANGED << hasConfig, booknotes, saves, now, nextId, lastCall, deleteCalls >>
    /\ UNCHANGED << sidecarAPIs, pageOf, uiHandlers, lastShow, held >>
    /\ UNCHANGED << regVars, spawnerVars, notHost >>

\* A mutant of SidecarConfig: no capability without a declared sidecar.
SidecarConfigDeclaredOnly(manifest) ==
    IF manifest.sidecar # NoSidecar THEN {manifest.sidecar} ELSE {}

\* manifest.sidecar ?? { command: '', args: [] }: the command of the config the
\* capability is built with ("" is the empty command).
SidecarConfig(manifest) ==
    IF manifest.sidecar # NoSidecar THEN {manifest.sidecar} ELSE {""}

\* createSidecarAPI(manifest) of provider p: a SidecarAPIImpl of the config and
\* of the provider's process spawner.
createSidecarAPI ==
    /\ \E p \in 1..Len(processSpawner) : \E manifest \in Manifests :
          sidecarAPIs' = sidecarAPIs \cup
              {[plugin |-> manifest.id, declared |-> manifest.sidecar # NoSidecar,
                command |-> command, spawner |-> processSpawner[p]] :
                   command \in SidecarConfig(manifest)}
    /\ sidecarAPIs' # sidecarAPIs
    /\ UNCHANGED << annFor, pageOf, uiHandlers, lastShow, held >>
    /\ UNCHANGED << tauriInternals, processSpawner, spawnLog >>
    /\ UNCHANGED << annVars, regVars, notHost >>

\* uiAPI.registerSettingsPage(component) of the UI capability of a plugin:
\* storeState().registerSettingsPage('', component).
UIRegisterSettingsPage ==
    /\ \E plugin \in Plugins : \E component \in ComponentsOf(plugin) :
       \E pluginId \in PluginIds :
          /\ pluginId \in DOMAIN pluginSettingsPages \/ RoomInMaps
          /\ pluginSettingsPages' = MapSet(pluginSettingsPages, pluginId,
                                           [pluginId |-> pluginId,
                                            component |-> component])
          /\ lastOp' = [op |-> "registerSettingsPage", key |-> pluginId,
                        existed |-> pluginId \in DOMAIN pluginSettingsPages]
          /\ pageOf' = MapSet(pageOf, plugin, component)
    /\ UNCHANGED << pluginPanels, pluginToolbarButtons, pluginContextMenuItems,
                    pluginStatusBarItems >>
    /\ UNCHANGED << annFor, sidecarAPIs, uiHandlers, lastShow, held >>
    /\ UNCHANGED << annVars, spawnerVars, notHost >>

\* dispose() of the Disposable a plugin got for its settings page: the cleanup
\* of the store action, () => get().unregisterSettingsPage('').
UIDisposeSettingsPage ==
    /\ \E plugin \in DOMAIN pageOf : \E pluginId \in PluginIds :
          /\ pluginSettingsPages' = MapDelete(pluginSettingsPages, pluginId)
          /\ lastOp' = [op |-> "disposeSettingsPage", key |-> pluginId,
                        existed |-> pluginId \in DOMAIN pluginSettingsPages]
          /\ pageOf' = MapDelete(pageOf, plugin)
    /\ UNCHANGED << pluginPanels, pluginToolbarButtons, pluginContextMenuItems,
                    pluginStatusBarItems >>
    /\ UNCHANGED << annFor, sidecarAPIs, uiHandlers, lastShow, held >>
    /\ UNCHANGED << annVars, spawnerVars, notHost >>

\* ------------------------------------------------------------ ReadestUIHost
\* One of the three handlers is set.
AnyHandler(handlers) == handlers.modal \/ handlers.confirm \/ handlers.progress

\* showProgress(title, task): the handler is returned when there is one;
\* otherwise the task is awaited with a reporter that does nothing.
showProgress(handlers, task, handled) ==
    IF handlers.progress
    THEN [op |-> "showProgress", own |-> TRUE, any |-> TRUE, task |-> task,
          delegated |-> 1, hostRuns |-> 0, displayed |-> TRUE, outcome |-> handled,
          value |-> "none"]
    ELSE [op |-> "showProgress", own |-> FALSE, any |-> AnyHandler(handlers),
          task |-> task, delegated |-> 0, hostRuns |-> 1, displayed |-> FALSE,
          outcome |-> task, value |-> "none"]

\* showModal(component): the handler is returned when there is one; otherwise
\* a warning is logged.
showModal(handlers, handled) ==
    IF handlers.modal
    THEN [op |-> "showModal", own |-> TRUE, any |-> TRUE, task |-> "none",
          delegated |-> 1, hostRuns |-> 0, displayed |-> TRUE, outcome |-> handled,
          value |-> "none"]
    ELSE [op |-> "showModal", own |-> FALSE, any |-> AnyHandler(handlers),
          task |-> "none", delegated |-> 0, hostRuns |-> 0, displayed |-> FALSE,
          outcome |-> "resolved", value |-> "none"]

\* A mutant of showConfirm: without a handler the answer is false.
showConfirmDenies(handlers, handled, answer) ==
    IF handlers.confirm
    THEN [op |-> "showConfirm", own |-> TRUE, any |-> TRUE, task |-> "none",
          delegated |-> 1, hostRuns |-> 0, displayed |-> TRUE, outcome |-> handled,
          value |-> IF handled = "resolved" THEN answer ELSE "none"]
    ELSE [op |-> "showConfirm", own |-> FALSE, any |-> AnyHandler(handlers),
          task |-> "none", delegated |-> 0, hostRuns |-> 0, displayed |-> FALSE,
          outcome |-> "resolved", value |-> "false"]

\* showConfirm(title, message): the handler is returned when there is one;
\* otherwise a warning is logged and true returned.
showConfirm(handlers, handled, answer) ==
    IF handlers.confirm
    THEN [op |-> "showConfirm", own |-> TRUE, any |-> TRUE, task |-> "none",
          delegated |-> 1, hostRuns |-> 0, displayed |-> TRUE, outcome |-> handled,
          value |-> IF handled = "resolved" THEN answer ELSE "none"]
    ELSE [op |-> "showConfirm", own |-> FALSE, any |-> AnyHandler(handlers),
          task |-> "none", delegated |-> 0, hostRuns |-> 0, displayed |-> FALSE,
          outcome |-> "resolved", value |-> "true"]

\* setModalHandler, setConfirmHandler, setProgressHandler: the host UI layer
\* sets a handler.
SetHandler ==
    /\ \E kind \in {"modal", "confirm", "progress"} :
          /\ ~uiHandlers[kind]
          /\ uiHandlers' = [uiHandlers EXCEPT ![kind] = TRUE]
    /\ UNCHANGED << annFor, sidecarAPIs, pageOf, lastShow, held >>
    /\ UNCHANGED << annVars, regVars, spawnerVars, notHost >>

\* A plugin calls showProgress with a task that finishes or fails; a handler,
\* when there is one, settles its promise one way or the other.
ShowProgress ==
    /\ \E task \in Outcomes, handled \in Outcomes :
          lastShow' = showProgress(uiHandlers, task, handled)
    /\ UNCHANGED << annFor, sidecarAPIs, pageOf, uiHandlers, held >>
    /\ UNCHANGED << annVars, regVars, spawnerVars, notHost >>

ShowModal ==
    /\ \E handled \in Outcomes : lastShow' = showModal(uiHandlers, handled)
    /\ UNCHANGED << annFor, sidecarAPIs, pageOf, uiHandlers, held >>
    /\ UNCHANGED << annVars, regVars, spawnerVars, notHost >>

ShowConfirm ==
    /\ \E handled \in Outcomes, answer \in {"true", "false"} :
          lastShow' = showConfirm(uiHandlers, handled, answer)
    /\ UNCHANGED << annFor, sidecarAPIs, pageOf, uiHandlers, held >>
    /\ UNCHANGED << annVars, regVars, spawnerVars, notHost >>

\* showNotification(message, type): a 'toast' event is dispatched and not
\* awaited, with a timeout of 5000 for an error and of 3000 otherwise.
showNotification(handlers, type) ==
    [op |-> "showNotification", own |-> FALSE, any |-> AnyHandler(handlers),
     task |-> type, delegated |-> 0, hostRuns |-> 0, displayed |-> TRUE,
     outcome |-> "resolved", value |-> IF type = "error" THEN "5000" ELSE "3000"]

ShowNotification ==
    /\ \E type \in {"info", "success", "warning", "error"} :
          lastShow' = showNotification(uiHandlers, type)
    /\ UNCHANGED << annFor, sidecarAPIs, pageOf, uiHandlers, held >>
    /\ UNCHANGED << annVars, regVars, spawnerVars, notHost >>

UIHostNext ==
    \/ SetHandler
    \/ ShowNotification
    \/ ShowProgress
    \/ ShowModal
    \/ ShowConfirm

\* ------------------------------------------------------- disposal tokens
\* What tells the entry registered under a key from another one registered
\* under it: the component of a panel, the label of a toolbar button.
MarkAt(registry, key) ==
    IF registry = "panels"
    THEN IF key \in DOMAIN pluginPanels THEN pluginPanels[key].component ELSE ""
    ELSE IF HasId(pluginToolbarButtons, key)
         THEN (CHOOSE b \in Range(pluginToolbarButtons) : b.id = key).label
         ELSE ""

\* A plugin keeps the token registerPanel or registerToolbarButton has just
\* returned: () => get().unregisterPanel(panelId), or
\* () => get().unregisterToolbarButton(button.id).
KeepToken ==
    /\ held = NoToken
    /\ lastOp.op \in {"registerPanel", "registerToolbarButton"}
    /\ held' = [registry |-> RegistryOf[lastOp.op], key |-> lastOp.key,
                mark |-> MarkAt(RegistryOf[lastOp.op], lastOp.key)]
    /\ UNCHANGED << annFor, sidecarAPIs, pageOf, uiHandlers, lastShow >>
    /\ UNCHANGED << annVars, regVars, spawnerVars, notHost >>

\* The kept token is called: the unregister action of its registry runs with
\* the key the token closed over.
CallToken ==
    /\ held # NoToken
    /\ pluginPanels' = IF held.registry = "panels"
                       THEN MapDelete(pluginPanels, held.key) ELSE pluginPanels
    /\ pluginToolbarButtons' = IF held.registry = "toolbar"
                               THEN UnregisterEntry(pluginToolbarButtons, held.key)
                               ELSE pluginToolbarButtons
    /\ lastOp' = [op |-> DisposeOf[held.registry], key |-> held.key,
                  existed |-> MarkAt(held.registry, held.key) # ""]
    /\ held' = NoToken
    /\ UNCHANGED << pluginContextMenuItems, pluginStatusBarItems, pluginSettingsPages >>
    /\ UNCHANGED << annFor, sidecarAPIs, pageOf, uiHandlers, lastShow >>
    /\ UNCHANGED << annVars, spawnerVars, notHost >>

TokenNext ==
    \/ registerPanel
    \/ unregisterPanel
    \/ registerToolbarButton
    \/ unregisterToolbarButton
    \/ KeepToken
    \/ CallToken

\* ------------------------------------------------------------ stale reads
\* The reads that answer without an argument, of the book capability and of
\* the annotation capability, while the host opens and closes books; the
\* annotation provider's key has no config throughout.
StaleNext ==
    \/ SetBookData
    \/ SwitchBook
    \/ createBookAPI
    \/ CallBook
    \/ CallContext
    \/ ListAnnotations

\* ------------------------------------------------------- specifications
Init ==
    /\ LifeInit /\ BookInit /\ ProcInit /\ AnnInit /\ RegInit /\ SpawnerInit
    /\ ViewInit /\ HostInit

SpecLife == Init /\ [][LifeNext]_vars

FairSpecLife == SpecLife /\ LifeFairness

SpecBook == Init /\ [][BookNext]_vars

SpecProc == Init /\ [][ProcNext]_vars

SpecAnn == Init /\ [][AnnNext]_vars

SpecLayer == Init /\ [][LayerNext]_vars

SpecReg == Init /\ [][RegNext]_vars

SpecMap == Init /\ [][MapNext]_vars

SpecUI == Init /\ [][UINext]_vars

SpecSpawner == Init /\ [][SpawnerNext]_vars

SpecView == Init /\ [][ViewNext]_vars

SpecStale == Init /\ [][StaleNext]_vars

\* The annotation capabilities of the plugins.
AttrNext ==
    \/ OpenBook
    \/ createAnnotationAPI
    \/ createAnnotation
    \/ createAnnotations
    \/ ListAnnotations
    \/ createLayer

SpecAttr == Init /\ [][AttrNext]_vars

\* The sidecar capabilities of the plugins.
SidecarNext ==
    \/ EnvironmentChanges
    \/ ConstructProvider
    \/ createSidecarAPI

SpecSidecar == Init /\ [][SidecarNext]_vars

\* The settings pages of the plugins.
PagesNext ==
    \/ UIRegisterSettingsPage
    \/ UIDisposeSettingsPage
    \/ registerPanel
    \/ unregisterPanel

SpecPages == Init /\ [][PagesNext]_vars

SpecUIHost == Init /\ [][UIHostNext]_vars

SpecToken == Init /\ [][TokenNext]_vars

\* ------------------------------------------------------------ claims C1-C4
InitCompletes == ipc # "done" /\ ipc' = "done"
ShutdownCompletes == spc # "done" /\ spc' = "done"

\* C1: when initializePlugins completes it has returned, not raised, and every
\* discovered plugin that loads and activates when asked to is activated in the
\* loader, whatever the other discovered plugins did (invalid manifest, rejected
\* load, rejected activation). The case is a call no shutdownPlugins ran into.
C1_FailureIsolated ==
    [][InitCompletes =>
          /\ initOutcome' = "returned"
          /\ (~overlap' => GoodPlugins(discovered') \subseteq loaderPlugins')]_vars

\* C1 witness: a completed call in which a plugin failed to load and a plugin
\* discovered after it is activated.
C1_Witness ==
    /\ ipc = "done"
    /\ initOutcome = "returned"
    /\ ~overlap
    /\ \E i, j \in 1..Len(discovered) :
          /\ i < j
          /\ discovered[i] \in {"loadFail", "activateFail"}
          /\ discovered[j] = "ok"
          /\ j \in loaderPlugins

\* C2: every initializePlugins call completes, and at the step that completes it
\* the initialized flag is true; when the outer catch ran (provider creation or
\* discovery threw) pluginCount is 0 at that step.
C2_EventuallyInitialized ==
    /\ (ipc \in {"provider", "dir", "discover", "load"}) ~> (ipc = "done")
    /\ [][InitCompletes => (initialized' /\ (initFailed' => pluginCount' = 0))]_vars

\* C2 witness: a call that completed through the outer catch with the flag set.
C2_Witness ==
    /\ ipc = "done"
    /\ initFailed
    /\ initialized
    /\ pluginCount = 0
    /\ calls = 2

\* C3: when an initializePlugins call that no shutdownPlugins ran into completes,
\* pluginCount is the number of discovered plugins with a valid manifest whose
\* load and activation succeeded, and these are the plugins the call activated;
\* when shutdownPlugins completes, pluginCount is 0 and initialized is false.
C3_CountIsLoaded ==
    [][/\ (InitCompletes /\ ~overlap') =>
             /\ pluginCount' = Cardinality(GoodPlugins(discovered'))
             /\ ActivatedBy(calls)' = GoodPlugins(discovered')
       /\ ShutdownCompletes => (pluginCount' = 0 /\ ~initialized')]_vars

\* C3 witness: two manifests were discovered, the second invalid, one plugin was
\* loaded, and the shutdown that followed has reset the store.
C3_Witness ==
    /\ ipc = "done"
    /\ ~overlap
    /\ discovered = << "ok", "invalid" >>
    /\ loadedCount = 1
    /\ spc = "done"
    /\ pluginCount = 0
    /\ ~initialized

\* C4: when shutdownPlugins completes it has returned, not raised, pluginCount is
\* 0, initialized is false, and _loader, _hostProvider and _bookKeyAccessor are
\* null, also when unloadAll rejected.
C4_ShutdownClears ==
    [][ShutdownCompletes =>
          /\ shutOutcome' = "returned"
          /\ pluginCount' = 0
          /\ ~initialized'
          /\ _loader' = 0
          /\ _hostProvider' = 0
          /\ _bookKeyAccessor' = 0]_vars

\* C4 witness: a shutdown in which unloadAll rejected, leaving a plugin
\* activated, has completed with everything cleared.
C4_Witness ==
    /\ spc = "done"
    /\ unloadRejected
    /\ active # {}
    /\ shutOutcome = "returned"
    /\ _loader = 0
    /\ pluginCount = 0
    /\ ~initialized

\* ---------------------------------------------------------------- claim C5
\* C5: a read made through a book capability that was created while book key
\* K1 was active, called while book key K2 is active, returns the state of K2's
\* book: the key is resolved at the call, not when the capability is created.
C5_ReadsActiveBook ==
    [][(/\ lastRead' # lastRead
        /\ lastRead'.op \in BookOps
        /\ bookAPIs[lastRead'.cap] \in Keys
        /\ activeKey \in Keys)
          => lastRead'.result = BookRead(lastRead'.op, activeKey)]_vars

\* ------------------------------------------------------------ claims C6-C8
\* The event indices a registration was called for, in call order.
IndicesOf(h) == [n \in 1..Len(received[h]) |-> received[h][n][1]]

\* The number of calls registration h got for event number i.
CallsFor(h, i) == Cardinality({n \in 1..Len(received[h]) : received[h][n][1] = i})

\* C6: a handler registered before the spawn resolved has been called exactly
\* once, with the event's value, for every event of its kind raised after the
\* resolution (an exit handler once with the exit code).
C6_EveryEventOnce ==
    ppc = "resolved" =>
        \A h \in 1..Len(regs) : \A i \in 1..Len(events) :
            (regs[h].before /\ i > resolvedAt /\ events[i].kind = regs[h].kind)
                => /\ CallsFor(h, i) = 1
                   /\ << i, HandlerArg(events[i].kind, events[i].val) >>
                          \in Range(received[h])

\* C7: every registration was called for events of its own kind only, with the
\* event's value, in the order the events were raised and never twice for one
\* event.
C7_InOrderNoDuplicate ==
    \A h \in 1..Len(regs) :
        /\ \A n \in 1..Len(received[h]) :
              LET i == received[h][n][1]
              IN  /\ i \in 1..Len(events)
                  /\ events[i].kind = regs[h].kind
                  /\ received[h][n][2] = HandlerArg(events[i].kind, events[i].val)
        /\ \A m, n \in 1..Len(received[h]) :
              m < n => received[h][m][1] < received[h][n][1]

\* C7 witness: the process wrote two lines to stdout and one stdout handler has
\* been called for the first and then for the second.
C7_Witness ==
    \E h \in 1..Len(regs) :
        /\ regs[h].kind = "stdout"
        /\ Len(events) = 2
        /\ IndicesOf(h) = << 1, 2 >>

\* C8: once the spawn has resolved, a kill requested on the handle, before or
\* after the resolution, has been issued to the child; a kill requested before
\* the resolution is issued by the step that resolves the spawn.
C8_KillNeverLost ==
    /\ []((ppc = "resolved" /\ killed) => killsIssued >= 1)
    /\ [][(ppc = "spawning" /\ ppc' = "resolved" /\ killed)
             => killsIssued' = killsIssued + 1]_vars

\* C8 witness: kill() was called while the spawn was in flight and returned
\* true, the spawn has resolved, and the kill has been issued to the child.
C8_Witness ==
    /\ ppc = "resolved"
    /\ killed
    /\ killResult = "true"
    /\ killDeferred
    /\ killsIssued = 1
    /\ proc = "running"
    /\ childPid = ThePid

\* ---------------------------------------------------------------- claim C9
IdsOf(annotations) == {annotations[n].id : n \in 1..Len(annotations)}

\* C9: after deleteAnnotation(id) of a record of the collection, no
\* getAnnotations call, with or without a chapter filter, returns id, and the
\* record is still in the collection with deletedAt and updatedAt set.
C9_SoftDelete ==
    /\ [](\A id \in deleteCalls :
             \E n \in 1..Len(booknotes) :
                 /\ booknotes[n].id = id
                 /\ booknotes[n].deletedAt > 0
                 /\ booknotes[n].updatedAt >= booknotes[n].deletedAt)
    /\ [][lastCall'.op = "list" => IdsOf(lastCall'.result) \cap deleteCalls' = {}]_vars
    /\ [](\A chapterIndex \in {NoFilter} \cup 0..MaxChapterIndex :
             IdsOf(getAnnotations(chapterIndex)) \cap deleteCalls = {})

\* C9 witness: two annotations of chapter 1 were created, the first was
\* deleted, and a later list filtered by chapter 1 returned the second only.
C9_Witness ==
    /\ deleteCalls = {1}
    /\ Len(booknotes) = 2
    /\ booknotes[1].deletedAt > 0
    /\ lastCall.op = "list"
    /\ lastCall.arg = 1
    /\ IdsOf(lastCall.result) = {2}

\* --------------------------------------------------------------- claim C10
\* The ids of a sequence of entries, in order.
IdSeq(seq) == [n \in 1..Len(seq) |-> seq[n].id]

\* after is before without the entries of the key's id, in their order,
\* followed by one entry of that id.
ReplacedAndAppended(before, after, key) ==
    /\ Len(after) >= 1
    /\ after[Len(after)].id = key
    /\ SubSeq(after, 1, Len(after) - 1) = SelectSeq(before, LAMBDA e : e.id # key)

\* C10: registering an entry in the toolbar-button, context-menu-item or
\* status-bar-item sequence leaves the earlier entries in their relative order,
\* without any entry of the same id, and puts the new entry at the end.
C10_ReplaceAndAppend ==
    [][/\ lastOp'.op = "registerToolbarButton" =>
            ReplacedAndAppended(pluginToolbarButtons, pluginToolbarButtons', lastOp'.key)
       /\ lastOp'.op = "registerContextMenuItem" =>
            ReplacedAndAppended(pluginContextMenuItems, pluginContextMenuItems',
                                lastOp'.key)
       /\ lastOp'.op = "registerStatusBarItem" =>
            ReplacedAndAppended(pluginStatusBarItems, pluginStatusBarItems',
                                lastOp'.key)]_vars

\* C10 witness: with a, b, c registered as toolbar buttons, b has just been
\* registered again and the order is a, c, b.
C10_Witness ==
    /\ lastOp = [op |-> "registerToolbarButton", key |-> "b", existed |-> TRUE]
    /\ IdSeq(pluginToolbarButtons) = << "a", "c", "b" >>

\* --------------------------------------------------------------- claim C11
\* seq without the entries of the key's id, the others in their order.
WithoutKey(seq, key) == SelectSeq(seq, LAMBDA e : e.id # key)

\* after is the map before without the key, the other entries as they were.
MapWithoutKey(before, after, key) ==
    /\ DOMAIN after = DOMAIN before \ {key}
    /\ \A k \in DOMAIN after : after[k] = before[k]

registries == << pluginPanels, pluginToolbarButtons, pluginContextMenuItems,
                 pluginStatusBarItems, pluginSettingsPages >>

\* C11: calling the token a register action returned removes the entries of its
\* key from its registry and leaves every other entry, the order, and the other
\* four registries as they were; calling it again right after changes nothing.
C11_DisposeTwice ==
    [][lastOp'.op \in DisposeOps =>
          LET registry == RegistryOf[lastOp'.op]
              key == lastOp'.key
          IN  /\ IF registry = "panels"
                 THEN MapWithoutKey(pluginPanels, pluginPanels', key)
                 ELSE pluginPanels' = pluginPanels
              /\ pluginToolbarButtons' =
                    IF registry = "toolbar"
                    THEN WithoutKey(pluginToolbarButtons, key)
                    ELSE pluginToolbarButtons
              /\ pluginContextMenuItems' =
                    IF registry = "contextMenu"
                    THEN WithoutKey(pluginContextMenuItems, key)
                    ELSE pluginContextMenuItems
              /\ pluginStatusBarItems' =
                    IF registry = "statusBar"
                    THEN WithoutKey(pluginStatusBarItems, key)
                    ELSE pluginStatusBarItems
              /\ IF registry = "settings"
                 THEN MapWithoutKey(pluginSettingsPages, pluginSettingsPages', key)
                 ELSE pluginSettingsPages' = pluginSettingsPages
              /\ lastOp.op \in DisposeOps => registries' = registries]_vars

\* C11 witness: the token of a toolbar button has been called a second time (its
\* key was gone already) while a panel is registered.
C11_Witness ==
    /\ lastOp.op = "disposeToolbarButton"
    /\ ~lastOp.existed
    /\ DOMAIN pluginPanels # {}

\* --------------------------------------------------------------- claim C12
\* What a chapter read gives when it succeeds.
ChapterTag(op) ==
    IF op = "getChapter" THEN "chapter"
    ELSE IF op = "getChapterHTML" THEN "html"
    ELSE "text"

C13_PidAfterResolve ==
    /\ []((ppc \in {"spawning", "failed"} => pid = 0)
          /\ (ppc = "resolved" => pid = ThePid))
    /\ [][/\ (ppc = "none" /\ ppc' # "none")
                => (ppc' = "spawning" /\ proc' = "none" /\ pid' = 0)
          /\ pid # 0 => pid' = pid
          /\ ppc = "failed" => ppc' = "failed"]_vars

\* C13 witness: the spawn resolved, the child has exited since, and the handle
\* still gives its pid.
C13_Witness ==
    /\ ppc = "resolved"
    /\ proc = "exited"
    /\ Len(events) > resolvedAt
    /\ pid = ThePid

\* --------------------------------------------------------------- claim C14
\* A step in which kill() was called and changed the handle.
KillStep ==
    /\ ppc' = ppc
    /\ killed' # killed \/ killsIssued' # killsIssued \/ killResult' # killResult

\* C14: kill() returns true in every state of the handle; called while the spawn
\* is in flight it only records the request, called after the spawn resolved
\* it issues a termination, and called after the spawn failed it issues none:
\* no termination is ever issued when the spawn has failed.
C14_KillAlwaysSucceeds ==
    /\ [](killResult \in {"none", "true"})
    /\ [](ppc = "failed" => killsIssued = 0)
    /\ [][KillStep =>
             /\ killed'
             /\ killResult' = "true"
             /\ ppc \in {"spawning", "failed"} => killsIssued' = killsIssued
             /\ ppc = "resolved" => killsIssued' = killsIssued + 1
             /\ UNCHANGED << childPid, childKill, regs, received, proc, events >>]_vars

\* C14 witness: the spawn has failed, kill() has been called and returned true,
\* and no termination was issued.
C14_Witness ==
    /\ ppc = "failed"
    /\ killed
    /\ killResult = "true"
    /\ killsIssued = 0
    /\ proc = "none"

\* --------------------------------------------------------------- claim C15
\* C15: a provider constructed in a window without the Tauri internals holds the
\* web stub, and every spawn call made through it throws the 'not supported'
\* error and returns no handle; the spawner of a provider is chosen when the
\* provider is constructed, from the environment of that moment, and stays
\* what it is whatever the environment becomes.
C15_StubAlwaysThrows ==
    /\ [](\A i \in 1..Len(spawnLog) :
            processSpawner[spawnLog[i].provider] = "stub"
                => spawnLog[i].outcome = NotSupported)
    /\ [][
           /\ \A p \in 1..Len(processSpawner) :
               /\ Len(processSpawner') >= p
               /\ processSpawner'[p] = processSpawner[p]
           /\ Len(processSpawner') > Len(processSpawner) =>
               /\ Len(processSpawner') = Len(processSpawner) + 1
               /\ processSpawner'[Len(processSpawner')] =
                      (IF tauriInternals THEN "tauri" ELSE "stub")
           /\ Len(spawnLog') > Len(spawnLog) =>
               (processSpawner[spawnLog'[Len(spawnLog')].provider] = "stub"
                   => spawnLog'[Len(spawnLog')].outcome = NotSupported)]_vars

\* C15 witness: the first provider was constructed without the Tauri internals,
\* the second with them; after a spawn through the second returned a handle, a
\* spawn through the first threw the 'not supported' error.
C15_Witness ==
    /\ Len(processSpawner) = 2
    /\ processSpawner[1] = "stub"
    /\ processSpawner[2] = "tauri"
    /\ Len(spawnLog) = 2
    /\ spawnLog[1] = [provider |-> 2, outcome |-> "handle"]
    /\ spawnLog[2] = [provider |-> 1, outcome |-> NotSupported]
    /\ tauriInternals

\* --------------------------------------------------------------- claim C16
UnregisterOps == {"unregisterPanel", "unregisterToolbarButton",
                  "unregisterContextMenuItem", "unregisterStatusBarItem",
                  "unregisterSettingsPage"}

\* C16: an unregister action called with a key its registry does not have
\* leaves all five registries as they were; and on every registry the store can
\* hold, unregistering a key from the result of unregistering it gives that
\* result again.
C16_UnregisterAbsent ==
    /\ [][lastOp'.op \in UnregisterOps /\ ~lastOp'.existed
              => registries' = registries]_vars
    /\ [](\A key \in Ids \cup PluginIds :
            /\ \A m \in {pluginPanels, pluginSettingsPages} :
                  /\ MapDelete(MapDelete(m, key), key) = MapDelete(m, key)
                  /\ key \notin DOMAIN m => MapDelete(m, key) = m
            /\ \A seq \in {pluginToolbarButtons, pluginContextMenuItems,
                            pluginStatusBarItems} :
                  /\ UnregisterEntry(UnregisterEntry(seq, key), key)
                        = UnregisterEntry(seq, key)
                  /\ ~HasId(seq, key) => UnregisterEntry(seq, key) = seq)

\* C16 witness: unregisterPanel has been called with a panel id that is not
\* registered while another panel and a toolbar button are.
C16_Witness ==
    /\ lastOp.op = "unregisterPanel"
    /\ ~lastOp.existed
    /\ DOMAIN pluginPanels # {}
    /\ Len(pluginToolbarButtons) = 1

\* --------------------------------------------------------------- claim C17
\* C17: setPanelVisible(panelId, visible) keeps the panels that are registered,
\* changes no panel but the one of panelId and nothing of that one but visible;
\* updateStatusBarItem(itemId, updates) keeps the length of the sequence and
\* every item of another id as and where it is, the items of itemId staying at
\* their positions; both leave the other registries alone, and all five when
\* no entry has the key.
C17_UpdateInPlace ==
    /\ [][lastOp'.op = "setPanelVisible" =>
             LET panelId == lastOp'.key
             IN  /\ DOMAIN pluginPanels' = DOMAIN pluginPanels
                 /\ \A k \in DOMAIN pluginPanels :
                       /\ k # panelId => pluginPanels'[k] = pluginPanels[k]
                       /\ pluginPanels'[k].pluginId = pluginPanels[k].pluginId
                       /\ pluginPanels'[k].panelId = pluginPanels[k].panelId
                       /\ pluginPanels'[k].component = pluginPanels[k].component
                 /\ UNCHANGED << pluginToolbarButtons, pluginContextMenuItems,
                                 pluginStatusBarItems, pluginSettingsPages >>
                 /\ panelId \notin DOMAIN pluginPanels => registries' = registries]_vars
    /\ [][lastOp'.op = "updateStatusBarItem" =>
             LET itemId == lastOp'.key
             IN  /\ Len(pluginStatusBarItems') = Len(pluginStatusBarItems)
                 /\ \A n \in 1..Len(pluginStatusBarItems) :
                       pluginStatusBarItems[n].id # itemId
                           => pluginStatusBarItems'[n] = pluginStatusBarItems[n]
                 /\ UNCHANGED << pluginPanels, pluginToolbarButtons,
                                 pluginContextMenuItems, pluginSettingsPages >>
                 /\ ~HasId(pluginStatusBarItems, itemId)
                       => registries' = registries]_vars

\* C17 witness: the first of two status bar items has been updated, its label is
\* the new one, and the second item follows it as before.
C17_Witness ==
    /\ lastOp.op = "updateStatusBarItem"
    /\ lastOp.existed
    /\ Len(pluginStatusBarItems) = 2
    /\ pluginStatusBarItems[1] = [id |-> lastOp.key, label |-> "v2"]
    /\ pluginStatusBarItems[2].id # lastOp.key
    /\ pluginStatusBarItems[2].label = "v1"

\* --------------------------------------------------------------- claim C18
\* C18: every createAnnotation or createAnnotations call that returns has put
\* each new record at the end of the collection, in the order given, and has
\* called saveConfig once, whatever the view did and whether or not the store
\* has the book's data; and every annotation a call returned is in the result
\* of getAnnotations() as long as deleteAnnotation has not deleted it.
C18_CreatePersists ==
    /\ [][nextId' > nextId =>
             LET k == nextId' - nextId
             IN  /\ Len(lastCall'.result) = k
                 /\ Len(booknotes') = Len(booknotes) + k
                 /\ SubSeq(booknotes', 1, Len(booknotes)) = booknotes
                 /\ \A n \in 1..k :
                       mapBookNoteToSDKAnnotation(booknotes'[Len(booknotes) + n],
                                                  ThePluginId)
                           = lastCall'.result[n]
                 /\ saves' = saves + 1]_vars
    /\ [](\A id \in 1..(nextId - 1) :
            id \notin deleteCalls => id \in IdsOf(getAnnotations(NoFilter)))

\* --------------------------------------------------------------- claim C19
\* C19: no step of the annotation and layer operations shortens the collection
\* or takes a record's id from its place, and a deleteAnnotation call with an
\* id no record has leaves the collection as it is and calls saveConfig not.
C19_NeverRemoves ==
    [][/\ Len(booknotes') >= Len(booknotes)
       /\ \A n \in 1..Len(booknotes) : booknotes'[n].id = booknotes[n].id
       /\ (lastCall'.op = "delete" /\ findIndex(booknotes, lastCall'.arg, 1) = 0)
             => booknotes' = booknotes /\ saves' = saves]_vars

\* C19 witness: an annotation was created and deleted, a layer was created, and
\* deleteAnnotation was then called with an id no record has: the record is
\* there, and saveConfig was called for the creation and the deletion only.
C19_Witness ==
    /\ Len(booknotes) = 1
    /\ booknotes[1].deletedAt > 0
    /\ DOMAIN layers # {}
    /\ lastCall.op = "delete"
    /\ lastCall.arg = 2
    /\ saves = 2

\* --------------------------------------------------------------- claim C20
NotActive == {"NoActiveView", "NotRendered"}

\* C20: a transformChapterHTML or transformParagraph call for a chapter index
\* the view of the provider's book has no rendered document of, or made while
\* there is no such view, throws the 'no active view' or the 'not currently
\* rendered' error and leaves every rendered document as it is.
C20_NotActive ==
    [][(/\ lastTransform'.op # "none"
        /\ ~view.present \/ lastTransform'.chapterIndex \notin Rendered(view))
          => /\ lastTransform'.result \in NotActive
             /\ view' = view]_vars

\* C20 witness: chapter 0 is rendered and a plugin has rewritten its first
\* paragraph; transformParagraph for chapter 1, which is not rendered, has
\* thrown, and the document of chapter 0 is as the plugin left it.
C20_Witness ==
    /\ view.present
    /\ Rendered(view) = {0}
    /\ view.contents[1].doc = << Paragraph("t1", 0), Paragraph("t0", 0) >>
    /\ lastTransform.op = "transformParagraph"
    /\ lastTransform.chapterIndex = 1
    /\ lastTransform.result = "NotRendered"

\* --------------------------------------------------------------- claim C21
\* The last nodes of doc, as many as follow place from in before.
TailAfter(doc, before, from) ==
    SubSeq(doc, Len(doc) - (Len(before) - from) + 1, Len(doc))

\* A step of a transformParagraph call on a rendered section; what the
\* property P(c, i) says of the section's place c in the contents and the
\* paragraph's place i in its document.
OnParagraphCall(P(_, _)) ==
    (/\ lastTransform'.op = "transformParagraph"
     /\ view.present
     /\ lastTransform'.chapterIndex \in Rendered(view))
        => P(findContent(view.contents, lastTransform'.chapterIndex),
             lastTransform'.paragraphIndex + 1)

\* The call fails with the range error and changes nothing when the index is
\* not one of the document's m nodes, and else changes this document only.
RangeChecked(c, i) ==
    LET doc == view.contents[c].doc
    IN  /\ (i < 1 \/ i > Len(doc)) =>
            /\ lastTransform'.result = "OutOfRange"
            /\ view' = view
        /\ (i >= 1 /\ i <= Len(doc)) =>
            /\ lastTransform'.result = "ok"
            /\ view'.present
            /\ Len(view'.contents) = Len(view.contents)
            /\ \A d \in 1..Len(view.contents) :
                  /\ view'.contents[d].index = view.contents[d].index
                  /\ d # c => view'.contents[d] = view.contents[d]

\* Every other node of the document is in it as before.
AllOthersKept(c, i) ==
    LET doc == view.contents[c].doc
        after == view'.contents[c].doc
    IN  (i >= 1 /\ i <= Len(doc)) =>
            /\ Len(after) >= Len(doc)
            /\ SubSeq(after, 1, i - 1) = SubSeq(doc, 1, i - 1)
            /\ TailAfter(after, doc, i) = SubSeq(doc, i + 1, Len(doc))

\* Every node of the document that is not inside the paragraph is in it as
\* before, and what stands between them is the paragraph and what is inside it.
OutsideKept(c, i) ==
    LET doc == view.contents[c].doc
        after == view'.contents[c].doc
        last == LastInside(doc, i, i)
    IN  (i >= 1 /\ i <= Len(doc)) =>
            /\ Len(after) >= i + Len(doc) - last
            /\ SubSeq(after, 1, i - 1) = SubSeq(doc, 1, i - 1)
            /\ TailAfter(after, doc, last) = SubSeq(doc, last + 1, Len(doc))
            /\ after[i].depth = doc[i].depth
            /\ \A n \in (i + 1)..(Len(after) - (Len(doc) - last)) :
                  after[n].depth > doc[i].depth

\* C21 as stated: transformParagraph on a rendered chapter of m paragraph-like
\* nodes fails with the range error and changes nothing for an index below 0
\* or from m on, and for an index of [0, m) replaces the content of that node
\* while every other node of the document and every other document stays as
\* it was.
C21_OnlyThatParagraph ==
    [][/\ OnParagraphCall(RangeChecked)
       /\ OnParagraphCall(AllOthersKept)]_vars

\* C21 as amended: the same, but the nodes that stay as they were are those
\* that are not inside the paragraph written to.
C21_OnlyInsideThatParagraph ==
    [][/\ OnParagraphCall(RangeChecked)
       /\ OnParagraphCall(OutsideKept)]_vars

\* C21 witness: a plugin wrote a paragraph-like node into the only paragraph of
\* chapter 0 and then a text into that node: the paragraph around it is as
\* the first call left it.
C21_Witness ==
    /\ lastTransform.op = "transformParagraph"
    /\ lastTransform.result = "ok"
    /\ lastTransform.chapterIndex = 0
    /\ lastTransform.paragraphIndex = 1
    /\ view.present
    /\ Rendered(view) = {0}
    /\ view.contents[1].doc = << Paragraph("t1", 0), Paragraph("t0", 1) >>

\* --------------------------------------------------------------- claim C22
\* What a read gives when there is nothing to give: null, 0, [], the default
\* metadata.
Absent(op) ==
    IF op \in {"getCurrentBook", "getChapterCount"} THEN << 0 >>
    ELSE IF op = "getMetadata" THEN << "Unknown", 0 >>
    ELSE IF op = "getAllChapters" THEN << "none", 0, 0 >>
    ELSE << "null", 0, 0 >>

\* C22: while the store has no data for the book key of a book capability,
\* getCurrentBook, getCurrentChapter, getChapterCount, getAllChapters,
\* getSelectedText and getMetadata called on it return null, 0, [] or the
\* default metadata, whatever progress the reader store has, and
\* getAnnotations returns [] while the store has no config for its key; none
\* of them throws, at any time of the capability's life.
C22_StaleReadsEmpty ==
    /\ [][(/\ lastRead' # lastRead
            /\ lastRead'.op \in BookOps \cup ContextOps
            /\ ~getBookData(bookAPIs[lastRead'.cap]).present)
              => lastRead'.result = Absent(lastRead'.op)]_vars
    /\ [](\A c \in 1..Len(bookAPIs) :
            ~getBookData(bookAPIs[c]).present =>
                /\ \A op \in BookOps : BookRead(op, bookAPIs[c]) = Absent(op)
                /\ \A op \in ContextOps : \A progress \in Progresses :
                      ContextRead(op, bookAPIs[c], progress) = Absent(op))
    /\ [][(lastCall'.op = "list" /\ ~hasConfig) => lastCall'.result = << >>]_vars
    /\ [](~hasConfig =>
            \A chapterIndex \in {NoFilter} \cup 0..MaxChapterIndex :
                getAnnotations(chapterIndex) = << >>)

\* C22 witness: the book of a capability's key was closed while another book is
\* open and the reader store still has progress for the key: getCurrentChapter
\* has returned null, and getAnnotations [] on a key without config.
C22_Witness ==
    /\ lastRead.op = "getCurrentChapter"
    /\ lastRead.arg = 0
    /\ bookAPIs[lastRead.cap] = "k1"
    /\ ~bookStore["k1"].present
    /\ activeKey = "k2"
    /\ bookStore["k2"].hasDoc
    /\ lastRead.result = << "null", 0, 0 >>
    /\ lastCall.op = "list"
    /\ ~hasConfig

\* --------------------------------------------------------------- claim C23
\* The step at which discoverPlugins rejects: the call was waiting for the
\* discovery and ends in the outer catch.
DiscoveryCannotRun == ipc = "discover" /\ ipc' = "done" /\ initFailed'

\* C23 as stated: a completing initializePlugins call has raised if and only if
\* its discovery step could not run.
C23_RaisesIffDiscoveryFails ==
    [][InitCompletes => ((initOutcome' = "raised") <=> DiscoveryCannotRun)]_vars

\* C23: initializePlugins raises in no case: a call that completes has returned,
\* after per-plugin failures and also when its discovery step could not run,
\* and in that case it has set the plugin count to 0 and marked the system
\* initialized.
C23_NeverRaises ==
    [][InitCompletes =>
          /\ initOutcome' # "raised"
          /\ (DiscoveryCannotRun =>
                 /\ initOutcome' = "returned"
                 /\ initialized'
                 /\ pluginCount' = 0)]_vars

\* C23 witness: discoverPlugins rejected in the first call, on the loader the
\* call created, with no shutdown around, and the call has returned.
C23_Witness ==
    /\ ipc = "done"
    /\ calls = 1
    /\ _loader = 1
    /\ spc = "idle"
    /\ initFailed
    /\ initOutcome = "returned"
    /\ initialized
    /\ pluginCount = 0

\* --------------------------------------------------------------- claim C24
\* C24: while loadPlugin is awaited for a plugin, discoverPlugins has resolved
\* and that plugin's manifest passed validation; no plugin with an invalid
\* manifest is ever activated in the loader of the call; and the loaded count
\* is the number of plugins before the awaited one that loaded and activated,
\* so a skipped plugin adds nothing to it.
C24_ValidatedBeforeLoad ==
    /\ [](ipc = "load" =>
            /\ idx \in ValidPlugins(discovered)
            /\ loadedCount = Cardinality({i \in GoodPlugins(discovered) : i < idx}))
    /\ [](ipc \in {"load", "done"} =>
            \A i \in ActivatedBy(calls) :
                i \in 1..Len(discovered) /\ discovered[i] # "invalid")
    /\ [][(ipc = "discover" /\ ipc' = "load") =>
            loadedCount' = 0 /\ idx' = NextValid(discovered', 1)]_vars
    /\ [][(ipc = "load" /\ ipc' = "load" /\ idx' # idx) =>
            /\ idx' = NextValid(discovered, idx + 1)
            /\ loadedCount' = loadedCount + (IF discovered[idx] = "ok" THEN 1 ELSE 0)]_vars

\* C24 witness: a plugin with an invalid manifest was discovered before one
\* that loads; the call is over with the second activated and a count of 1.
C24_Witness ==
    /\ ipc = "done"
    /\ discovered = << "invalid", "ok" >>
    /\ ActivatedBy(calls) = {2}
    /\ loadedCount = 1
    /\ pluginCount = 1

\* --------------------------------------------------------------- claim C25
\* C25: every annotation a create or list call returns through the annotation
\* capability created for a plugin, and every layer createLayer returns through
\* it, has that plugin's id as its pluginId.
C25_AttributedToPlugin ==
    [][(lastCall' # lastCall /\ annFor # "none") =>
          \A n \in 1..Len(lastCall'.result) :
              lastCall'.result[n].pluginId = annFor]_vars

\* --------------------------------------------------------------- claim C26
\* C26: every sidecar capability the provider has built was built for a
\* manifest that declares a sidecar.
C26_OnlyDeclaredSidecar ==
    \A api \in sidecarAPIs : api.declared

\* --------------------------------------------------------------- claim C27
\* C27: the settings page every plugin holds registered through its UI
\* capability is in the registry: a page registered or disposed by another
\* plugin does not take it out.
C27_PagePerPlugin ==
    \A plugin \in DOMAIN pageOf :
        \E key \in DOMAIN pluginSettingsPages :
            pluginSettingsPages[key].component = pageOf[plugin]

\* --------------------------------------------------------------- claim C28
LayerOps == {"createLayer", "getLayer", "setLayerVisible", "deleteLayer"}

\* C28: a createLayer, getLayer, setLayerVisible or deleteLayer call leaves the
\* annotation collection as it is and issues no persistence write, and
\* getAnnotations lists after it what it listed before it.
C28_LayersApart ==
    [][lastCall'.op \in LayerOps =>
          /\ booknotes' = booknotes
          /\ saves' = saves
          /\ getAnnotations(NoFilter)' = getAnnotations(NoFilter)]_vars

\* C28 witness: a layer that was there has been deleted while the book has two
\* annotations, which are still listed.
C28_Witness ==
    /\ lastCall.op = "deleteLayer"
    /\ lastCall.result # << >>
    /\ layers = << >>
    /\ hasConfig
    /\ Len(getAnnotations(NoFilter)) = 2

\* --------------------------------------------------------------- claim C29
\* C29: once the spawn has failed, every error handler registered before the
\* failure has been called exactly once with the startup error, no exit handler
\* has been called, and the handle has no pid and no process.
C29_StartupErrorDelivered ==
    ppc = "failed" =>
        /\ \A h \in 1..Len(regs) :
              /\ (regs[h].before /\ regs[h].kind = "error") =>
                    Cardinality({n \in 1..Len(received[h]) :
                                    received[h][n][2] = HandlerArg("error", "startup")}) = 1
              /\ regs[h].kind = "exit" => received[h] = << >>
        /\ pid = 0
        /\ proc = "none"

\* --------------------------------------------------------------- claim C30
ShowOps == {"showProgress", "showModal", "showConfirm"}

\* A call delegated to the handler of its kind: once, and the host runs no task.
Delegated(show) == show.own => (show.delegated = 1 /\ show.hostRuns = 0)

\* C30 as stated: a show call made while the host has no handler resolves,
\* showProgress after running the task once, showModal with nothing displayed,
\* showConfirm with true; a call made with its handler set is delegated once.
C30_FallbacksResolve ==
    lastShow.op \in ShowOps =>
        /\ ~lastShow.any =>
              /\ lastShow.outcome = "resolved"
              /\ lastShow.delegated = 0
              /\ lastShow.op = "showProgress" => lastShow.hostRuns = 1
              /\ lastShow.op = "showModal" => ~lastShow.displayed
              /\ lastShow.op = "showConfirm" => lastShow.value = "true"
        /\ Delegated(lastShow)

\* C30: a show call made without the handler of its kind is not delegated;
\* showProgress has run the task once and settles as the task does, resolved
\* when it finished and rejected when it failed; showModal has resolved with
\* nothing displayed; showConfirm has resolved with true. A call made with the
\* handler of its kind set is delegated once and the host runs no task.
C30_FallbacksSettle ==
    lastShow.op \in ShowOps =>
        /\ ~lastShow.own =>
              /\ lastShow.delegated = 0
              /\ lastShow.op = "showProgress" =>
                    lastShow.hostRuns = 1 /\ lastShow.outcome = lastShow.task
              /\ lastShow.op = "showModal" =>
                    lastShow.outcome = "resolved" /\ ~lastShow.displayed
              /\ lastShow.op = "showConfirm" =>
                    lastShow.outcome = "resolved" /\ lastShow.value = "true"
        /\ Delegated(lastShow)

\* C30 witness: showProgress was called with a task that fails while no
\* progress handler was set: the host ran the task once and the call rejected.
C30_Witness ==
    /\ lastShow.op = "showProgress"
    /\ ~lastShow.any
    /\ lastShow.task = "rejected"
    /\ lastShow.hostRuns = 1
    /\ lastShow.delegated = 0
    /\ lastShow.outcome = "rejected"

\* --------------------------------------------------------------- claim C31
\* C31: a plugin (the manifest at a position of the plugins directory) is
\* activated only while no loader holds it activated from an earlier load, and
\* the plugins the running initializePlugins call has activated are plugins
\* whose load did not fail in that call.
C31_ForwardOnly ==
    /\ [][\A q \in active' \ active : \A r \in active : r[2] # q[2]]_vars
    /\ [](ipc \in {"load", "done"} =>
            \A i \in ActivatedBy(calls) : i \in GoodPlugins(discovered))

\* --------------------------------------------------------------- claim C32
\* C32: when a shutdownPlugins call ran while the initializePlugins call was
\* suspended and both calls have completed, pluginCount is 0, initialized is
\* false, _loader is null and no plugin that call loaded is still activated.
C32_ShutdownWins ==
    (overlap /\ ipc = "done" /\ spc = "done") =>
        /\ pluginCount = 0
        /\ ~initialized
        /\ _loader = 0
        /\ ActivatedBy(calls) = {}

\* --------------------------------------------------------------- claim C33
\* C33: the call of a kept token takes away no entry but the one the token was
\* returned for: an entry registered since under the same key, with another
\* component or label, is still there after the call.
C33_TokenOwnEntry ==
    [][(held # NoToken /\ held' = NoToken) =>
          LET newer == MarkAt(held.registry, held.key)
          IN  (newer # "" /\ newer # held.mark) =>
                  MarkAt(held.registry, held.key)' = newer]_vars

\* --------------------------------------------------------------- claim C34
UniqueIds(seq) == \A m, n \in 1..Len(seq) : seq[m].id = seq[n].id => m = n

\* C34: the toolbar buttons, the context menu items and the status bar items
\* hold at most one entry per id, whatever register, unregister, disposal and
\* updateStatusBarItem calls were made.
C34_OneEntryPerId ==
    /\ UniqueIds(pluginToolbarButtons)
    /\ UniqueIds(pluginContextMenuItems)
    /\ UniqueIds(pluginStatusBarItems)

\* --------------------------------------------------------------- claim C35
\* C35: on a book whose data is in the store, whatever the order in which
\* create, createMany and delete calls run, each call works on the collection
\* as the call before it left it: a step keeps every record in its place and
\* every deletion stamp, a create step adds exactly its new records, and a
\* delete step of a record of the collection stamps it.
C35_NoLostUpdate ==
    [][hasConfig =>
          /\ Len(booknotes') >= Len(booknotes)
          /\ \A n \in 1..Len(booknotes) :
                /\ booknotes'[n].id = booknotes[n].id
                /\ booknotes[n].deletedAt > 0 => booknotes'[n].deletedAt > 0
          /\ nextId' > nextId =>
                IdsOf(booknotes') = IdsOf(booknotes) \cup nextId..(nextId' - 1)
          /\ \A id \in deleteCalls' \ deleteCalls :
                \E n \in 1..Len(booknotes') :
                    booknotes'[n].id = id /\ booknotes'[n].deletedAt > 0]_vars

\* C35 witness: a record was created and deleted, and a create call that ran
\* after the deletion has returned: both records are there, the first with its
\* stamp.
C35_Witness ==
    /\ hasConfig
    /\ lastCall.op = "create"
    /\ lastCall.result[1].id = 2
    /\ Len(booknotes) = 2
    /\ booknotes[1].deletedAt > 0
    /\ booknotes[2].deletedAt = 0
    /\ deleteCalls = {1}

\* --------------------------------------------------------------- claim C36
\* C36: every call a handler gets in a step is for the event raised in that
\* very step, and it goes to a handler that was registered before the step; a
\* handler starts with no calls. So no handler is ever called for an event
\* raised before its registration, an exit or a failed spawn included.
C36_NoReplay ==
    [][/\ \A h \in 1..Len(received') :
             LET old == IF h <= Len(received) THEN Len(received[h]) ELSE 0
             IN  \A n \in (old + 1)..Len(received'[h]) :
                     /\ h <= Len(regs)
                     /\ Len(events') = Len(events) + 1
                     /\ received'[h][n][1] = Len(events')
       /\ \A h \in 1..Len(received) :
             SubSeq(received'[h], 1, Len(received[h])) = received[h]]_vars

\* C36 witness: the only handler is an exit handler that does not throw, the
\* process has exited, and the handler was not called: it was registered
\* after the exit.
C36_Witness ==
    /\ proc = "exited"
    /\ Len(regs) = 1
    /\ regs[1].kind = "exit"
    /\ ~regs[1].throws
    /\ received[1] = << >>
    /\ \E i \in 1..Len(events) : events[i].kind = "exit"

\* --------------------------------------------------------------- claim C37
\* C37: when an event is raised, every handler registered for its kind is
\* called for it, once, whether or not a handler called before it threw, for
\* this event and for the events after it.
C37_HandlersIsolated ==
    [][Len(events') = Len(events) + 1 =>
          \A h \in 1..Len(regs) :
              regs[h].kind = events'[Len(events')].kind =>
                  received'[h] = Append(received[h],
                      << Len(events'),
                         HandlerArg(regs[h].kind, events'[Len(events')].val) >>)]_vars

\* --------------------------------------------------------------- claim C38
\* C38: the spine step made up for chapter k maps back to section k, for every
\* k from 0 on; a create call for chapter k returns the annotation with
\* chapterIndex k; and with the book's data in the store the new annotation is
\* in the list of chapter k and in the list of no other chapter.
C38_ChapterRoundTrip ==
    /\ [](\A k \in 0..(MaxChapterIndex + MaxSaves * MaxEntries) :
             extractSectionIndexFromCFI(SynthesizedCFI(k)) = k)
    /\ [][(lastCall'.op = "create" /\ nextId' = nextId + 1) =>
             LET k == lastCall'.arg
             IN  /\ lastCall'.result[1].id = nextId
                 /\ lastCall'.result[1].chapterIndex = k
                 /\ hasConfig =>
                       \A j \in 0..MaxChapterIndex :
                           (nextId \in IdsOf(getAnnotations(j))') <=> (j = k)]_vars

\* C38 witness: a create call for chapter 1 has returned while an annotation
\* of chapter 0 is in the collection: the new one is listed for chapter 1 and
\* not for chapter 0.
C38_Witness ==
    /\ hasConfig
    /\ lastCall.op = "create"
    /\ lastCall.arg = 1
    /\ lastCall.result[1].chapterIndex = 1
    /\ Len(booknotes) = 2
    /\ IdsOf(getAnnotations(0)) = {1}
    /\ IdsOf(getAnnotations(1)) = {2}

\* --------------------------------------------------------------- claim C39
\* C39: a create call returns the annotation with the type it was called
\* with, for every annotation the call may have been made with: the type
\* goes to the host's note type and back unchanged.
C39_TypeRoundTrip ==
    [][(lastCall'.op = "create" /\ nextId' = nextId + 1) =>
          \A annotation \in NewAnnotations :
              lastCall'.result =
                  << mapBookNoteToSDKAnnotation(
                         mapSDKAnnotationToBookNote(annotation, nextId, now),
                         ThePluginId) >>
              => /\ lastCall'.result[1].type = annotation.type
                 /\ mapReadestNoteTypeToSDK(
                        mapSDKTypeToReadestNoteType(annotation.type)) = annotation.type]_vars

\* --------------------------------------------------------------- claim C40
\* C40: a setLayerVisible or deleteLayer call with a layer id that is not in
\* the layer directory ends with a NotFound failure for the plugin and leaves
\* the directory as it was.
C40_AbsentLayerNotFound ==
    [][\A layerId \in LayerIds :
          (/\ layerId \notin DOMAIN layers
           /\ lastCall'.op \in {"setLayerVisible", "deleteLayer"}
           /\ setLayerVisible \/ deleteLayer)
          => /\ LayerCallOutcome(layerId) = "NotFound"
             /\ layers' = layers]_vars

====
